---------------------------- MODULE Spec2Model ----------------------------
(***************************************************************************)
(* A model of the ConfigFS identity blob writer,                           *)
(* chromeos-config/cros_config_host/configfs.py (WriteIdentityStruct), and *)
(* of the reader its unit test uses to parse the blob back                 *)
(* (configfs_unittest.py, testConfigIdentityV0).                           *)
(*                                                                         *)
(* A string is a sequence of Unicode code points, a byte string a sequence *)
(* of numbers in 0..255.  The strings of the inputs hold no NUL character. *)
(***************************************************************************)
EXTENDS Integers, Sequences, FiniteSets

(***************************************************************************)
(* Bounds of the model.                                                    *)
(***************************************************************************)
\* the size of a configuration is the number of its device configs plus the
\* number of identity keys they hold in all; the configurations of the model
\* are those of at most this size
MaxSize == 5

(***************************************************************************)
(* Program constants.                                                      *)
(***************************************************************************)
STRUCT_VERSION == 0
X86 == 0
ARM == 1
HAS_SKU_ID == 1
HAS_WHITELABEL == 2
USES_CUSTOMIZATION_ID == 4
USES_FIRMWARE_NAME == 8
HAS_SMBIOS_NAME == 16

\* Python's None, as a value no string equals (no code point is negative)
None == <<-1>>

(***************************************************************************)
(* Input domains.                                                          *)
(***************************************************************************)
\* "A", "a" (equal once lower-cased) and "Éb" (lower-cased "éb", whose
\* UTF-8 encoding is longer than the string)
Strings == {<<65>>, <<97>>, <<201, 98>>}
\* 258 = 0x0102 fills two bytes of the little-endian field
SkuIds == {0, 258}
\* a dict holds the integer n as the one-element sequence <<n>>, so that all
\* the values of a dict are sequences of numbers
Boxed(n) == <<n>>
Unboxed(v) == v[1]

ModelKeys == {"smbios-name-match", "device-tree-compatible-match", "firmware-name"}
WhitelabelKeys == {"customization-id", "whitelabel-tag"}
StringKeys == ModelKeys \cup WhitelabelKeys
Keys == StringKeys \cup {"sku-id"}

ValuesOf(key) == IF key = "sku-id" THEN {Boxed(n) : n \in SkuIds} ELSE Strings

\* the empty dict {}
EmptyDict == [k \in {} |-> <<>>]

\* the identity dicts with exactly the keys ks
IdentitiesOver(ks) ==
  {f \in [ks -> UNION {ValuesOf(k) : k \in Keys}] : \A k \in ks : f[k] \in ValuesOf(k)}

\* the identity dicts with n keys
IdentitiesOfSize(n) ==
  UNION {IdentitiesOver(ks) : ks \in {s \in SUBSET Keys : Cardinality(s) = n}}

\* the 'name' every device config has besides its identity: "some"
DeviceName == <<115, 111, 109, 101>>

\* the device configs whose identity has n keys; a device config may also
\* have no 'identity' key at all
DeviceConfigsOfSize(n) ==
  {[has_identity |-> TRUE, identity |-> id, name |-> DeviceName] :
     id \in IdentitiesOfSize(n)}
    \cup (IF n = 0
          THEN {[has_identity |-> FALSE, identity |-> EmptyDict, name |-> DeviceName]}
          ELSE {})

\* the device configs a configuration of the model may hold, by their
\* number of identity keys
DeviceConfigs == [n \in 0..(MaxSize - 1) |-> DeviceConfigsOfSize(n)]

RECURSIVE KeyCount(_)
\* the number of identity keys in a list of device configs
KeyCount(configs) ==
  IF configs = <<>> THEN 0
  ELSE Cardinality(DOMAIN Head(configs).identity) + KeyCount(Tail(configs))

(***************************************************************************)
(* Pure functions of configfs.py.                                          *)
(***************************************************************************)
\* c.get('identity', {})
GetIdentity(c) == IF c.has_identity THEN c.identity ELSE EmptyDict

\* str.lower() on one code point (ASCII and Latin-1 capitals)
Lower(c) ==
  IF c \in 65..90 THEN c + 32
  ELSE IF c \in 192..222 /\ c # 215 THEN c + 32
  ELSE c

\* variant of LowerStr: the call of lower() left out
LowerStrIdentity(s) == s

\* string.lower()
LowerStr(s) == [k \in 1..Len(s) |-> Lower(s[k])]

\* the UTF-8 encoding of one code point (below U+0800)
EncodeChar(c) ==
  IF c < 128 THEN <<c>>
  ELSE <<192 + (c \div 64), 128 + (c % 64)>>

RECURSIVE Encode(_)
\* string.encode('utf-8')
Encode(s) == IF s = <<>> THEN <<>> ELSE EncodeChar(Head(s)) \o Encode(Tail(s))

\* string.lower().encode('utf-8') + b'\000'
StringTableEntry(string) == Encode(LowerStr(string)) \o <<0>>

\* variant of StringTableAppend: the test "string not in string_table" left out
StringTableAppendAlways(table, string) ==
  IF string = None THEN table ELSE Append(table, StringTableEntry(string))

\* the string table after _StringTableIndex(string)
StringTableAppend(table, string) ==
  IF string = None THEN table
  ELSE IF \E k \in 1..Len(table) : table[k] = StringTableEntry(string)
       THEN table
       ELSE Append(table, StringTableEntry(string))

RECURSIVE IndexLoopNoNul(_, _, _, _)
\* variant of IndexLoop: the NUL terminators not counted
IndexLoopNoNul(table, entry, k, index) ==
  IF k > Len(table) THEN -1
  ELSE IF table[k] = entry THEN index
  ELSE IndexLoopNoNul(table, entry, k + 1, index + Len(table[k]) - 1)

RECURSIVE IndexLoopCount(_, _, _, _)
\* variant of IndexLoop: the entries counted, not their bytes
IndexLoopCount(table, entry, k, index) ==
  IF k > Len(table) THEN -1
  ELSE IF table[k] = entry THEN index
  ELSE IndexLoopCount(table, entry, k + 1, index + 1)

RECURSIVE IndexLoop(_, _, _, _)
\* the loop that sums the lengths of the entries before the string's
IndexLoop(table, entry, k, index) ==
  IF k > Len(table) THEN -1
  ELSE IF table[k] = entry THEN index
  ELSE IndexLoop(table, entry, k + 1, index + Len(table[k]))

\* the value _StringTableIndex(string) returns, table being the string
\* table before the call
StringTableIndex(table, string) ==
  IF string = None THEN 0
  ELSE IndexLoop(StringTableAppend(table, string), StringTableEntry(string), 1, 0)

\* variant of IdentityTypeOf: firmware-name not looked for
IdentityTypeOfOnlyDeviceTree(configs) ==
  IF \E k \in 1..Len(configs) :
       "device-tree-compatible-match" \in DOMAIN GetIdentity(configs[k])
  THEN ARM ELSE X86

\* variant of IdentityTypeOf: device-tree-compatible-match not looked for
IdentityTypeOfOnlyFirmwareName(configs) ==
  IF \E k \in 1..Len(configs) : "firmware-name" \in DOMAIN GetIdentity(configs[k])
  THEN ARM ELSE X86

\* ARM when any config has an identity with device-tree-compatible-match
\* or firmware-name, otherwise X86
IdentityTypeOf(configs) ==
  IF \E k \in 1..Len(configs) :
       \/ "device-tree-compatible-match" \in DOMAIN GetIdentity(configs[k])
       \/ "firmware-name" \in DOMAIN GetIdentity(configs[k])
  THEN ARM ELSE X86

\* struct.pack('<L', n)
Pack32(n) ==
  <<n % 256, (n \div 256) % 256, (n \div 65536) % 256, (n \div 16777216) % 256>>

\* variant of PackHeader: the format '<LLL', without the reserved bytes
PackHeaderNoPad(version, type, count) ==
  Pack32(version) \o Pack32(type) \o Pack32(count)

\* struct.pack(HEADER_FORMAT, version, type, count), HEADER_FORMAT = '<LLL4x'
PackHeader(version, type, count) ==
  Pack32(version) \o Pack32(type) \o Pack32(count) \o <<0, 0, 0, 0>>

\* variant of PackEntry: the SKU id packed before the model-match offset
PackEntrySkuFirst(flags, model, sku, whitelabel) ==
  Pack32(flags) \o Pack32(sku) \o Pack32(model) \o Pack32(whitelabel)

\* struct.pack(ENTRY_FORMAT, flags, model, sku, whitelabel), ENTRY_FORMAT = '<LLLL'
PackEntry(flags, model, sku, whitelabel) ==
  Pack32(flags) \o Pack32(model) \o Pack32(sku) \o Pack32(whitelabel)

\* whether bit is set in flags (bit a power of two)
HasFlag(flags, bit) == (flags \div bit) % 2 = 1

\* flags | bit
BitOr(flags, bit) == IF HasFlag(flags, bit) THEN flags ELSE flags + bit

\* variant of RaisesKeyError: the lookup of device-tree-compatible-match made
\* whatever the identity type
RaisesKeyErrorAnyType(type, id) ==
  /\ "firmware-name" \notin DOMAIN id
  /\ "device-tree-compatible-match" \notin DOMAIN id

\* the lookup identity_info['device-tree-compatible-match'] of an ARM
\* device without firmware-name raises KeyError when the key is missing
RaisesKeyError(type, id) ==
  /\ type = ARM
  /\ "firmware-name" \notin DOMAIN id
  /\ "device-tree-compatible-match" \notin DOMAIN id

\* sku_id of the entry
SkuIdOf(id) == IF "sku-id" \in DOMAIN id THEN Unboxed(id["sku-id"]) ELSE 0

\* variant of ModelMatchOf: device-tree-compatible-match looked up before
\* firmware-name
ModelMatchOfDeviceTreeFirst(type, id) ==
  IF type = X86
  THEN IF "smbios-name-match" \in DOMAIN id THEN id["smbios-name-match"] ELSE None
  ELSE IF "device-tree-compatible-match" \in DOMAIN id
       THEN id["device-tree-compatible-match"]
       ELSE id["firmware-name"]

\* model_match of the entry (no KeyError raised)
ModelMatchOf(type, id) ==
  IF type = X86
  THEN IF "smbios-name-match" \in DOMAIN id THEN id["smbios-name-match"] ELSE None
  ELSE IF "firmware-name" \in DOMAIN id THEN id["firmware-name"]
       ELSE id["device-tree-compatible-match"]

\* variant of WhitelabelMatchOf: the elif branch of whitelabel-tag left out
WhitelabelMatchOfOnlyCustomization(id) ==
  IF "customization-id" \in DOMAIN id THEN id["customization-id"] ELSE None

\* whitelabel_match of the entry
WhitelabelMatchOf(id) ==
  IF "customization-id" \in DOMAIN id THEN id["customization-id"]
  ELSE IF "whitelabel-tag" \in DOMAIN id THEN id["whitelabel-tag"]
  ELSE None

\* variant of FlagsOf: HAS_SMBIOS_NAME never set
FlagsOfNoSmbios(type, id) ==
  LET f1 == IF "sku-id" \in DOMAIN id THEN BitOr(0, HAS_SKU_ID) ELSE 0
      f2 == IF type = ARM /\ "firmware-name" \in DOMAIN id
            THEN BitOr(f1, USES_FIRMWARE_NAME) ELSE f1
  IN  IF "customization-id" \in DOMAIN id THEN BitOr(f2, USES_CUSTOMIZATION_ID)
      ELSE IF "whitelabel-tag" \in DOMAIN id THEN BitOr(f2, HAS_WHITELABEL)
      ELSE f2

\* variant of FlagsOf: "if identity_info.get('sku-id')" for "if 'sku-id' in
\* identity_info", so that sku-id 0 counts as no sku-id
FlagsOfSkuTruthy(type, id) ==
  LET f1 == IF "sku-id" \in DOMAIN id /\ Unboxed(id["sku-id"]) # 0
            THEN BitOr(0, HAS_SKU_ID) ELSE 0
      f2 == IF type = X86
            THEN IF "smbios-name-match" \in DOMAIN id
                 THEN BitOr(f1, HAS_SMBIOS_NAME) ELSE f1
            ELSE IF "firmware-name" \in DOMAIN id
                 THEN BitOr(f1, USES_FIRMWARE_NAME) ELSE f1
  IN  IF "customization-id" \in DOMAIN id THEN BitOr(f2, USES_CUSTOMIZATION_ID)
      ELSE IF "whitelabel-tag" \in DOMAIN id THEN BitOr(f2, HAS_WHITELABEL)
      ELSE f2

\* variant of FlagsOf: whitelabel-tag tested before customization-id
FlagsOfWhitelabelFirst(type, id) ==
  LET f1 == IF "sku-id" \in DOMAIN id THEN BitOr(0, HAS_SKU_ID) ELSE 0
      f2 == IF type = X86
            THEN IF "smbios-name-match" \in DOMAIN id
                 THEN BitOr(f1, HAS_SMBIOS_NAME) ELSE f1
            ELSE IF "firmware-name" \in DOMAIN id
                 THEN BitOr(f1, USES_FIRMWARE_NAME) ELSE f1
  IN  IF "whitelabel-tag" \in DOMAIN id THEN BitOr(f2, HAS_WHITELABEL)
      ELSE IF "customization-id" \in DOMAIN id THEN BitOr(f2, USES_CUSTOMIZATION_ID)
      ELSE f2

\* flags of the entry
FlagsOf(type, id) ==
  LET f1 == IF "sku-id" \in DOMAIN id THEN BitOr(0, HAS_SKU_ID) ELSE 0
      f2 == IF type = X86
            THEN IF "smbios-name-match" \in DOMAIN id
                 THEN BitOr(f1, HAS_SMBIOS_NAME) ELSE f1
            ELSE IF "firmware-name" \in DOMAIN id
                 THEN BitOr(f1, USES_FIRMWARE_NAME) ELSE f1
  IN  IF "customization-id" \in DOMAIN id THEN BitOr(f2, USES_CUSTOMIZATION_ID)
      ELSE IF "whitelabel-tag" \in DOMAIN id THEN BitOr(f2, HAS_WHITELABEL)
      ELSE f2

RECURSIVE Flatten(_)
\* the concatenation of the byte strings of a list
Flatten(table) == IF table = <<>> THEN <<>> ELSE Head(table) \o Flatten(Tail(table))

(***************************************************************************)
(* The reader of configfs_unittest.py.                                     *)
(***************************************************************************)
\* struct.unpack_from('<L', blob, offset=pos)
Unpack32(blob, pos) ==
  blob[pos + 1] + 256 * blob[pos + 2] + 65536 * blob[pos + 3] + 16777216 * blob[pos + 4]

RECURSIVE UntilNul(_, _)
\* blob[pos:].partition(b'\000')[0]
UntilNul(blob, pos) ==
  IF pos >= Len(blob) THEN <<>>
  ELSE IF blob[pos + 1] = 0 THEN <<>>
  ELSE <<blob[pos + 1]>> \o UntilNul(blob, pos + 1)

RECURSIVE Decode(_)
\* bytes.decode('utf-8'), for code points below U+0800
Decode(bytes) ==
  IF bytes = <<>> THEN <<>>
  ELSE IF Head(bytes) < 128 THEN <<Head(bytes)>> \o Decode(Tail(bytes))
  ELSE <<(Head(bytes) - 192) * 64 + (bytes[2] - 128)>> \o Decode(Tail(Tail(bytes)))

\* struct.calcsize(HEADER_FORMAT) and struct.calcsize(ENTRY_FORMAT)
HeaderSize == Len(PackHeader(0, 0, 0))
EntrySize == Len(PackEntry(0, 0, 0, 0))

\* _GetString(offset) of the test, entry_count read from the header
GetString(blob, offset) ==
  Decode(UntilNul(blob, HeaderSize + EntrySize * Unpack32(blob, 8) + offset))

(***************************************************************************)
(* The configuration items of WriteConfigFSFiles: dict, list, str, int,    *)
(* bool or bytes, each kept with its Python type.                          *)
(***************************************************************************)
\* a dict, its members [name, entry] in the order of the dict
PyDict(members) == [t |-> "dict", members |-> members]
PyList(items) == [t |-> "list", items |-> items]
PyBool(b) == [t |-> "bool", b |-> b]
PyInt(n) == [t |-> "int", n |-> n]
PyStr(s) == [t |-> "str", s |-> s]
PyBytes(bytes) == [t |-> "bytes", bytes |-> bytes]

\* the number of nodes a configuration item of the model may have
MaxNodes == 4

\* the leaves of the model: True, False, 10, 'Éb', b'\xff\xff'
Leaves == {PyBool(TRUE), PyBool(FALSE), PyInt(10), PyStr(<<201, 98>>), PyBytes(<<255, 255>>)}

\* the dict keys of the model: 'a' and '0'
DictKeys == {<<97>>, <<48>>}

RECURSIVE ItemsOfSize(_)
RECURSIVE ItemListsOfSize(_)
\* the configuration items with n nodes
ItemsOfSize(n) ==
  IF n = 1 THEN Leaves \cup {PyDict(<<>>), PyList(<<>>)}
  ELSE {PyList(items) : items \in ItemListsOfSize(n - 1)}
         \cup UNION {{PyDict([i \in 1..Len(items) |-> [name |-> names[i], entry |-> items[i]]]) :
                        names \in {ns \in [1..Len(items) -> DictKeys] :
                                     \A i, j \in 1..Len(items) : ns[i] = ns[j] => i = j}} :
                     items \in ItemListsOfSize(n - 1)}

\* the non-empty lists of configuration items with n nodes in all
ItemListsOfSize(n) ==
  {<<item>> : item \in ItemsOfSize(n)} \cup
  UNION {{<<first>> \o rest : first \in ItemsOfSize(k), rest \in ItemListsOfSize(n - k)} :
         k \in 1..(n - 1)}

(***************************************************************************)
(* The arguments of AndroidInstaller.                                      *)
(***************************************************************************)
\* class AndroidInstallerCaller
PUSH_TO_DEVICE == 0
EBUILD_SRC_COMPILE == 1
EBUILD_SRC_INSTALL == 2
EBUILD_SRC_TEST == 3
BOARD_SPECIFIC_SETUP == 4
BOARD_SPECIFIC_SETUP_TEST == 5

\* allowed_callers(): the lower-cased member names, in the order of the enum
AllowedCallers ==
  <<"push_to_device", "ebuild_src_compile", "ebuild_src_install", "ebuild_src_test",
    "board_specific_setup", "board_specific_setup_test">>

\* from_str(caller): the member of that name
FromStr(name) == (CHOOSE i \in 1..Len(AllowedCallers) : AllowedCallers[i] = name) - 1

\* args.caller when no --caller is given
NoCaller == "None"

\* the number of --env and --use arguments of a command line
MaxArgs == 2

\* the --env arguments of the model: 'a=b=c', 'a=', 'a', '=a', 'a=1', 'a=2',
\* 'c=' and ''
EnvArgs ==
  {<<97, 61, 98, 61, 99>>, <<97, 61>>, <<97>>, <<61, 97>>, <<97, 61, 49>>,
   <<97, 61, 50>>, <<99, 61>>, <<>>}

\* the --use arguments of the model: '+x', '-x', '*x', '-y', '+' and ''
UseArgs == {<<43, 120>>, <<45, 120>>, <<42, 120>>, <<45, 121>>, <<43>>, <<>>}

(***************************************************************************)
(* The inputs of _BuildAudio: sw_config.audio_config with its string       *)
(* fields, the empty string for a field that is not set.                   *)
(***************************************************************************)
\* an audio_config message
AudioConfig(card_name, ucm_file, ucm_master_file, card_config_file, dsp_file) ==
  [present |-> TRUE, card_name |-> card_name, ucm_file |-> ucm_file,
   ucm_master_file |-> ucm_master_file, card_config_file |-> card_config_file,
   dsp_file |-> dsp_file]

\* a sw_config.audio_config that tests false
NoAudioConfig ==
  [present |-> FALSE, card_name |-> <<>>, ucm_file |-> <<>>, ucm_master_file |-> <<>>,
   card_config_file |-> <<>>, dsp_file |-> <<>>]

\* the values of a file field in the model: not set, 'u' and 'd'
FileValues == {<<>>, <<117>>, <<100>>}

\* the card names of the model: 'card' and 'C'
CardNames == {<<99, 97, 114, 100>>, <<67>>}

\* the hw_design names of the model: 'Fake'
DesignNames == {<<70, 97, 107, 101>>}

\* the audio configs of the model
AudioConfigs ==
  {NoAudioConfig} \cup
  {AudioConfig(card, ucm, master, cardcfg, dsp) :
     card \in CardNames, ucm \in FileValues, master \in FileValues,
     cardcfg \in FileValues, dsp \in FileValues}

(***************************************************************************)
(* The inputs of _TransformBuildConfigs: a ConfigBundle with its programs, *)
(* designs, device brands, software configs and build targets.  An id that *)
(* is not set is the empty string.  The bundles of the model have no       *)
(* partners and no brand configs, and no odm_id or oem_id is set.          *)
(***************************************************************************)
\* the number of designs, design configs, device brands and software
\* configs of a bundle
MaxBundle == 5

DesignIds == {"d1", "d2"}
DesignConfigIds == {"c1", "c2"}
ProgramIds == {"p"}

\* a bundle with nothing in it
EmptyBundle ==
  [build_targets |-> 1, programs |-> {}, designs |-> <<>>, device_brands |-> <<>>,
   software_configs |-> <<>>]

\* device_brand_pb2.DeviceBrand(): a brand with no field set
DefaultDeviceBrand == [id |-> "", design_id |-> "", brand_code |-> <<>>]

\* no exception raised
NoException == [message |-> "", value |-> ""]

\* the size of a bundle
RECURSIVE DesignConfigCount(_)
DesignConfigCount(designs) ==
  IF designs = <<>> THEN 0
  ELSE Len(Head(designs).configs) + DesignConfigCount(Tail(designs))

BundleSize(b) ==
  Len(b.designs) + DesignConfigCount(b.designs) + Len(b.device_brands)
    + Len(b.software_configs)

(***************************************************************************)
(* State of one call WriteIdentityStruct(config, output_file).             *)
(***************************************************************************)
VARIABLES
  device_configs,   \* config['chromeos']['configs']
  pc,               \* "input" (the configuration is being loaded), "start",
                    \* "entries", "done", or "error" (KeyError raised)
  identity_type,    \* X86 or ARM, once the header is written
  next_device,      \* index of the device config the loop visits next
  string_table,     \* the list string_table
  output,           \* the bytes written to output_file so far
  run,              \* 1 in the first call on the config, 2 in the second
  first_output,     \* in the second call: the bytes the first call wrote
  first_pc          \* in the second call: how the first call ended

(***************************************************************************)
(* State of one call WriteIdentityJson(config, output_file).               *)
(***************************************************************************)
VARIABLES
  json_pc,          \* "start", "done", or "error" (KeyError raised)
  json_output       \* the JSON tokens written to output_file

struct_vars == <<pc, identity_type, next_device, string_table, output,
                 run, first_output, first_pc>>

json_vars == <<json_pc, json_output>>

(***************************************************************************)
(* State of one call WriteConfigFSFiles(config, base_path).                *)
(***************************************************************************)
VARIABLES
  config,           \* the configuration item the call is given
  files_pc,         \* "input", "loaded" or "done"
  files             \* the directories and files made below base_path

files_vars == <<config, files_pc, files>>

(***************************************************************************)
(* State of one AndroidInstaller: its construction from the parsed         *)
(* arguments, and its main().                                              *)
(***************************************************************************)
VARIABLES
  env_args,         \* args.env; the empty sequence when no --env is given
  use_args,         \* args.use; the empty sequence when no --use is given
  caller_arg,       \* args.caller
  installer_pc,     \* "argv", "env", "use", "constructed", "main", "returned",
                    \* "ValueError", "IndexError" or "NotImplementedError"
  next_arg,         \* index of the argument the running loop visits next
  env,              \* self.env
  use,              \* self.use
  caller,           \* self.caller; -1 while not set
  mocked,           \* whether the installer is the Mock of test_main
  next_step,        \* which of the five if statements of main is next
  invoked           \* the step methods main has called, in order

installer_vars == <<env_args, use_args, caller_arg, installer_pc, next_arg, env, use,
                    caller, mocked, next_step, invoked>>

(***************************************************************************)
(* State of one call _BuildAudio(config) and of one call                   *)
(* _TransformBuildConfigs(config) of cros_config_proto_converter.py.       *)
(***************************************************************************)
VARIABLES
  build_config,     \* the Config _BuildAudio is given: hw_design.name and
                    \* sw_config.audio_config
  audio_pc,         \* "input", "loaded" or "done"
  audio             \* the dict _BuildAudio returns

audio_vars == <<build_config, audio_pc, audio>>

VARIABLES
  bundle,           \* the ConfigBundle _TransformBuildConfigs is given
  transform_pc,     \* "input", "loop", "returned" or "Exception"
  next_visit,       \* which pass of the innermost loop comes next
  results,          \* the dict results, in the order of insertion
  raised            \* the exception raised: its message and the value in it

transform_vars == <<bundle, transform_pc, next_visit, results, raised>>

converter_vars == <<audio_vars, transform_vars>>

\* the variables of the programs other than WriteIdentityStruct
other_vars == <<json_vars, files_vars, installer_vars, converter_vars>>

vars == <<device_configs, pc, identity_type, next_device, string_table, output,
          run, first_output, first_pc, other_vars>>

Init ==
  /\ device_configs = <<>>
  /\ pc = "input"
  /\ identity_type = X86
  /\ next_device = 1
  /\ string_table = <<>>
  /\ output = <<>>
  /\ run = 1
  /\ first_output = <<>>
  /\ first_pc = "none"
  /\ json_pc = "start"
  /\ json_output = <<>>
  /\ config = PyDict(<<>>)
  /\ files_pc = "input"
  /\ files = {}
  /\ env_args = <<>>
  /\ use_args = <<>>
  /\ caller_arg = NoCaller
  /\ installer_pc = "argv"
  /\ next_arg = 1
  /\ env = EmptyDict
  /\ use = EmptyDict
  /\ caller = -1
  /\ mocked = FALSE
  /\ next_step = 1
  /\ invoked = <<>>
  /\ build_config = [hw_design_name |-> <<>>, audio_config |-> NoAudioConfig]
  /\ audio_pc = "input"
  /\ audio = EmptyDict
  /\ bundle = EmptyBundle
  /\ transform_pc = "input"
  /\ next_visit = 1
  /\ results = <<>>
  /\ raised = NoException

\* the caller loads one more device config into the configuration
LoadDeviceConfig ==
  /\ pc = "input"
  /\ json_pc = "start"
  /\ \E n \in 0..(MaxSize - 1 - Len(device_configs) - KeyCount(device_configs)) :
       \E d \in DeviceConfigs[n] : device_configs' = Append(device_configs, d)
  /\ UNCHANGED <<pc, identity_type, next_device, string_table, output,
                 run, first_output, first_pc>>
  /\ UNCHANGED other_vars

\* lines 118-119: the call WriteIdentityStruct(config, output_file) begins
Call ==
  /\ pc = "input"
  /\ pc' = "start"
  /\ UNCHANGED <<device_configs, identity_type, next_device, string_table, output,
                 run, first_output, first_pc>>
  /\ UNCHANGED other_vars

\* lines 143-154: choose the identity type and write the header
WriteHeader ==
  /\ pc = "start"
  /\ identity_type' = IdentityTypeOf(device_configs)
  /\ output' = output \o PackHeader(STRUCT_VERSION, IdentityTypeOf(device_configs),
                                    Len(device_configs))
  /\ pc' = "entries"
  /\ UNCHANGED <<device_configs, next_device, string_table, run, first_output, first_pc>>
  /\ UNCHANGED other_vars

\* lines 157-190: one pass of the loop over device_configs that writes an entry
WriteEntry ==
  /\ pc = "entries"
  /\ next_device <= Len(device_configs)
  /\ LET id == GetIdentity(device_configs[next_device])
     IN  /\ ~RaisesKeyError(identity_type, id)
         /\ LET model_match == ModelMatchOf(identity_type, id)
                whitelabel_match == WhitelabelMatchOf(id)
                table1 == StringTableAppend(string_table, model_match)
                model_index == StringTableIndex(string_table, model_match)
                table2 == StringTableAppend(table1, whitelabel_match)
                whitelabel_index == StringTableIndex(table1, whitelabel_match)
            IN  /\ string_table' = table2
                /\ output' = output \o PackEntry(FlagsOf(identity_type, id), model_index,
                                                 SkuIdOf(id), whitelabel_index)
  /\ next_device' = next_device + 1
  /\ UNCHANGED <<device_configs, pc, identity_type, run, first_output, first_pc>>
  /\ UNCHANGED other_vars

\* line 176: the pass of the loop that raises KeyError
EntryKeyError ==
  /\ pc = "entries"
  /\ next_device <= Len(device_configs)
  /\ RaisesKeyError(identity_type, GetIdentity(device_configs[next_device]))
  /\ pc' = "error"
  /\ UNCHANGED <<device_configs, identity_type, next_device, string_table, output,
                 run, first_output, first_pc>>
  /\ UNCHANGED other_vars

\* a permutation of 1..Len(table) applied to the table
Permuted(table, p) == [k \in 1..Len(table) |-> table[p[k]]]

\* the permutations of 1..n
Orderings(n) == {p \in [1..n -> 1..n] : \A a, b \in 1..n : p[a] = p[b] => a = b}

\* variant of WriteStringTable: the table kept as a set, written in the order
\* its iteration happens to take
WriteStringTableAnyOrder ==
  /\ pc = "entries"
  /\ next_device > Len(device_configs)
  /\ \E p \in Orderings(Len(string_table)) :
       output' = output \o Flatten(Permuted(string_table, p))
  /\ pc' = "done"
  /\ UNCHANGED <<device_configs, identity_type, next_device, string_table,
                 run, first_output, first_pc>>
  /\ UNCHANGED other_vars

\* lines 192-193: write the string table
WriteStringTable ==
  /\ pc = "entries"
  /\ next_device > Len(device_configs)
  /\ output' = output \o Flatten(string_table)
  /\ pc' = "done"
  /\ UNCHANGED <<device_configs, identity_type, next_device, string_table,
                 run, first_output, first_pc>>
  /\ UNCHANGED other_vars

\* a second call WriteIdentityStruct(config, f) on the same config, with a
\* fresh output file; what the first call wrote is kept for comparison
CallAgain ==
  /\ pc \in {"done", "error"}
  /\ run = 1
  /\ run' = 2
  /\ first_output' = output
  /\ first_pc' = pc
  /\ pc' = "start"
  /\ identity_type' = X86
  /\ next_device' = 1
  /\ string_table' = <<>>
  /\ output' = <<>>
  /\ UNCHANGED device_configs
  /\ UNCHANGED other_vars

Next == LoadDeviceConfig \/ Call \/ WriteHeader \/ WriteEntry \/ EntryKeyError \/ WriteStringTable

Spec == Init /\ [][Next]_vars

NextTwice == Next \/ CallAgain

SpecTwice == Init /\ [][NextTwice]_vars

(***************************************************************************)
(* json.dump and json.load: the document is kept as its sequence of        *)
(* tokens.  A dict key is kept as its name; the text of a string is kept   *)
(* as json.dump escapes it (ensure_ascii), a number as its decimal digits. *)
(***************************************************************************)
\* str(n) of one decimal digit
Digit(d) == 48 + d

RECURSIVE Digits(_)
\* the decimal digits of n >= 0
Digits(n) == IF n < 10 THEN <<Digit(n)>> ELSE Append(Digits(n \div 10), Digit(n % 10))

\* str(n) of an integer
Decimal(n) == IF n < 0 THEN <<45>> \o Digits(0 - n) ELSE Digits(n)

RECURSIVE ParseDigits(_)
\* the number a sequence of decimal digits denotes
ParseDigits(ds) ==
  IF ds = <<>> THEN 0
  ELSE 10 * ParseDigits(SubSeq(ds, 1, Len(ds) - 1)) + (ds[Len(ds)] - 48)

\* int(text)
ParseDecimal(text) ==
  IF text[1] = 45 THEN 0 - ParseDigits(Tail(text)) ELSE ParseDigits(text)

\* one lower-case hexadecimal digit
HexDigit(d) == IF d < 10 THEN 48 + d ELSE 87 + d

\* the value of one lower-case hexadecimal digit
HexValue(c) == IF c < 58 THEN c - 48 ELSE c - 87

\* json.dump on one code point of a string: the quote and the backslash are
\* escaped, a code point outside ASCII is written \uXXXX (below U+10000;
\* control characters are not among the strings of the model)
EscapeChar(c) ==
  IF c = 34 \/ c = 92 THEN <<92, c>>
  ELSE IF c < 128 THEN <<c>>
  ELSE <<92, 117, HexDigit(c \div 4096), HexDigit((c \div 256) % 16),
         HexDigit((c \div 16) % 16), HexDigit(c % 16)>>

RECURSIVE Escape(_)
\* json.dump on the text of a string
Escape(s) == IF s = <<>> THEN <<>> ELSE EscapeChar(Head(s)) \o Escape(Tail(s))

RECURSIVE Unescape(_)
\* json.load on the text of a string
Unescape(text) ==
  IF text = <<>> THEN <<>>
  ELSE IF Head(text) # 92 THEN <<Head(text)>> \o Unescape(Tail(text))
  ELSE IF text[2] = 117
       THEN <<4096 * HexValue(text[3]) + 256 * HexValue(text[4])
                + 16 * HexValue(text[5]) + HexValue(text[6])>>
              \o Unescape(SubSeq(text, 7, Len(text)))
       ELSE <<text[2]>> \o Unescape(SubSeq(text, 3, Len(text)))

\* the Python objects json.dump is given
JObject(members) == [t |-> "object", members |-> members]
JArray(items) == [t |-> "array", items |-> items]
JString(s) == [t |-> "string", s |-> s]
JNumber(n) == [t |-> "number", n |-> n]

\* the tokens of a JSON document
Tok(kind) == [kind |-> kind, text |-> <<>>, key |-> ""]
KeyTok(name) == [kind |-> "key", text |-> <<>>, key |-> name]
StringTok(s) == [kind |-> "string", text |-> Escape(s), key |-> ""]
NumberTok(n) == [kind |-> "number", text |-> Decimal(n), key |-> ""]

RECURSIVE JsonDump(_)
RECURSIVE DumpMembers(_)
RECURSIVE DumpItems(_)
\* json.dump(obj, output_file)
JsonDump(obj) ==
  CASE obj.t = "object" -> <<Tok("{")>> \o DumpMembers(obj.members) \o <<Tok("}")>>
    [] obj.t = "array" -> <<Tok("[")>> \o DumpItems(obj.items) \o <<Tok("]")>>
    [] obj.t = "string" -> <<StringTok(obj.s)>>
    [] obj.t = "number" -> <<NumberTok(obj.n)>>

\* the members of a dict, in the order of the dict
DumpMembers(members) ==
  IF members = <<>> THEN <<>>
  ELSE <<KeyTok(Head(members).k), Tok(":")>> \o JsonDump(Head(members).v)
         \o (IF Len(members) > 1 THEN <<Tok(",")>> ELSE <<>>)
         \o DumpMembers(Tail(members))

\* the items of a list
DumpItems(items) ==
  IF items = <<>> THEN <<>>
  ELSE JsonDump(Head(items))
         \o (IF Len(items) > 1 THEN <<Tok(",")>> ELSE <<>>)
         \o DumpItems(Tail(items))

\* d[key] = value on a dict
SetItem(d, key, value) ==
  [x \in DOMAIN d \cup {key} |-> IF x = key THEN value ELSE d[x]]

RECURSIVE ParseValue(_, _)
RECURSIVE ParseMembers(_, _, _)
RECURSIVE ParseItems(_, _, _)
\* json.load from position p of the tokens: the value read and the position
\* behind it; a dict is read as a function of its keys, a list as a
\* sequence, a string as its code points, the integer n as <<n>>
ParseValue(toks, p) ==
  CASE toks[p].kind = "{" -> ParseMembers(toks, p + 1, EmptyDict)
    [] toks[p].kind = "[" -> ParseItems(toks, p + 1, <<>>)
    [] toks[p].kind = "string" -> [v |-> Unescape(toks[p].text), p |-> p + 1]
    [] toks[p].kind = "number" -> [v |-> Boxed(ParseDecimal(toks[p].text)), p |-> p + 1]

\* the members of a dict up to its closing brace
ParseMembers(toks, p, acc) ==
  IF toks[p].kind = "}" THEN [v |-> acc, p |-> p + 1]
  ELSE LET q == IF toks[p].kind = "," THEN p + 1 ELSE p
           value == ParseValue(toks, q + 2)
       IN  ParseMembers(toks, value.p, SetItem(acc, toks[q].key, value.v))

\* the items of a list up to its closing bracket
ParseItems(toks, p, acc) ==
  IF toks[p].kind = "]" THEN [v |-> acc, p |-> p + 1]
  ELSE LET q == IF toks[p].kind = "," THEN p + 1 ELSE p
           value == ParseValue(toks, q)
       IN  ParseItems(toks, value.p, Append(acc, value.v))

\* json.load(f)
JsonLoad(toks) == ParseValue(toks, 1).v

(***************************************************************************)
(* WriteIdentityJson(config, output_file), lines 88-104.                   *)
(***************************************************************************)
\* the order in which an identity dict of the model lists its keys
KeyOrder ==
  <<"sku-id", "smbios-name-match", "device-tree-compatible-match", "firmware-name",
    "customization-id", "whitelabel-tag">>

\* an identity dict as the Python object it is: sku-id an integer, the other
\* values strings
IdentityObject(id) ==
  LET ks == SelectSeq(KeyOrder, LAMBDA k : k \in DOMAIN id)
  IN  JObject([i \in 1..Len(ks) |->
                 [k |-> ks[i],
                  v |-> IF ks[i] = "sku-id" THEN JNumber(Unboxed(id[ks[i]]))
                        ELSE JString(id[ks[i]])]])

\* variant of MinifiedConfigs: the device config appended with all its fields
MinifiedConfigsWholeDevice(configs) ==
  [i \in 1..Len(configs) |->
     JObject(<<[k |-> "identity", v |-> IdentityObject(configs[i].identity)],
               [k |-> "name", v |-> JString(configs[i].name)]>>)]

\* lines 100-103: minified_configs once the loop is through
MinifiedConfigs(configs) ==
  [i \in 1..Len(configs) |->
     JObject(<<[k |-> "identity", v |-> IdentityObject(configs[i].identity)]>>)]

\* line 101: minified_config
MinifiedConfig(configs) ==
  JObject(<<[k |-> "chromeos",
             v |-> JObject(<<[k |-> "configs", v |-> JArray(MinifiedConfigs(configs))]>>)]>>)

\* lines 100-104: every device config has an identity; the document is written
WriteIdentityJson ==
  /\ json_pc = "start"
  /\ \A i \in 1..Len(device_configs) : device_configs[i].has_identity
  /\ json_output' = JsonDump(MinifiedConfig(device_configs))
  /\ json_pc' = "done"
  /\ UNCHANGED <<device_configs, struct_vars, files_vars, installer_vars, converter_vars>>

\* line 103: device_config['identity'] raises KeyError on a device config
\* without the key, before anything is written
WriteIdentityJsonKeyError ==
  /\ json_pc = "start"
  /\ \E i \in 1..Len(device_configs) : ~device_configs[i].has_identity
  /\ json_pc' = "error"
  /\ UNCHANGED <<device_configs, struct_vars, json_output, files_vars, installer_vars,
                 converter_vars>>

NextJson == LoadDeviceConfig \/ WriteIdentityJson \/ WriteIdentityJsonKeyError

SpecJson == Init /\ [][NextJson]_vars

(***************************************************************************)
(* Serialize(obj) and WriteConfigFSFiles(config, base_path), lines 48-85.  *)
(* A path is the sequence of the names below base_path.                    *)
(***************************************************************************)
\* str(obj): 'True' and 'False' for a bool, the decimal form of an int, a
\* str as it is
Str(obj) ==
  CASE obj.t = "bool" -> IF obj.b THEN <<84, 114, 117, 101>> ELSE <<70, 97, 108, 115, 101>>
    [] obj.t = "int" -> Decimal(obj.n)
    [] obj.t = "str" -> obj.s

\* isinstance(obj, cls): a bool is an int as well
IsInstance(obj, cls) == obj.t = cls \/ (cls = "int" /\ obj.t = "bool")

\* variant of Serialize: the bool case left out
SerializeNoBool(obj) ==
  IF IsInstance(obj, "bytes") THEN obj.bytes
  ELSE Encode(Str(obj))

\* lines 48-61
Serialize(obj) ==
  IF IsInstance(obj, "bytes") THEN obj.bytes
  ELSE IF IsInstance(obj, "bool")
       THEN IF obj.b THEN <<116, 114, 117, 101>> ELSE <<102, 97, 108, 115, 101>>
       ELSE Encode(Str(obj))

\* what os.makedirs and open(os.open(...), 'wb') leave at a path
Directory(path) == [path |-> path, dir |-> TRUE, content |-> <<>>]
RegularFile(path, content) == [path |-> path, dir |-> FALSE, content |-> content]

RECURSIVE FilesWritten(_, _)
\* lines 71-85: what WriteConfigFSFiles(item, base_path) makes
FilesWritten(item, base_path) ==
  IF IsInstance(item, "dict")
  THEN {Directory(base_path)} \cup
       UNION {FilesWritten(item.members[i].entry,
                           Append(base_path, Str(PyStr(item.members[i].name)))) :
              i \in 1..Len(item.members)}
  ELSE IF IsInstance(item, "list")
  THEN {Directory(base_path)} \cup
       UNION {FilesWritten(item.items[i], Append(base_path, Str(PyInt(i - 1)))) :
              i \in 1..Len(item.items)}
  ELSE {RegularFile(base_path, Serialize(item))}

\* the caller's configuration item
LoadConfig ==
  /\ files_pc = "input"
  /\ \E n \in 1..MaxNodes : \E item \in ItemsOfSize(n) : config' = item
  /\ files_pc' = "loaded"
  /\ UNCHANGED <<device_configs, struct_vars, json_vars, files, installer_vars,
                 converter_vars>>

\* the call WriteConfigFSFiles(config, base_path), base_path not existing yet
WriteConfigFSFiles ==
  /\ files_pc = "loaded"
  /\ files' = FilesWritten(config, <<>>)
  /\ files_pc' = "done"
  /\ UNCHANGED <<device_configs, struct_vars, json_vars, config, installer_vars,
                 converter_vars>>

NextFiles == LoadConfig \/ WriteConfigFSFiles

SpecFiles == Init /\ [][NextFiles]_vars

(***************************************************************************)
(* AndroidInstaller.__init__(argv) behind parse_args, lines 79-112, and    *)
(* AndroidInstaller.main(), lines 114-149.                                 *)
(***************************************************************************)
RECURSIVE Find(_, _)
\* the position of the first c in s, 0 when there is none
Find(s, c) ==
  IF s = <<>> THEN 0
  ELSE IF Head(s) = c THEN 1
  ELSE IF Find(Tail(s), c) = 0 THEN 0 ELSE Find(Tail(s), c) + 1

RECURSIVE FindLast(_, _)
\* the position of the last c in s, 0 when there is none
FindLast(s, c) ==
  IF s = <<>> THEN 0
  ELSE IF s[Len(s)] = c THEN Len(s)
  ELSE FindLast(SubSeq(s, 1, Len(s) - 1), c)

\* variant of Split1: e.rsplit(sep, 1)
RSplit1(s, sep) ==
  IF FindLast(s, sep) = 0 THEN <<s>>
  ELSE <<SubSeq(s, 1, FindLast(s, sep) - 1), SubSeq(s, FindLast(s, sep) + 1, Len(s))>>

\* e.split(sep, 1)
Split1(s, sep) ==
  IF Find(s, sep) = 0 THEN <<s>>
  ELSE <<SubSeq(s, 1, Find(s, sep) - 1), SubSeq(s, Find(s, sep) + 1, Len(s))>>

\* variant of Store: the former argument is kept
StoreFirst(d, key, value) == IF key \in DOMAIN d THEN d ELSE SetItem(d, key, value)

\* lines 93 and 108: self.env[key] = value, self.use[key] = value
Store(d, key, value) == SetItem(d, key, value)

\* one more --env argument on the command line
AddEnvArg ==
  /\ installer_pc = "argv"
  /\ Len(env_args) + Len(use_args) < MaxArgs
  /\ \E e \in EnvArgs : env_args' = Append(env_args, e)
  /\ UNCHANGED <<use_args, caller_arg, installer_pc, next_arg, env, use, caller,
                 mocked, next_step, invoked>>
  /\ UNCHANGED <<device_configs, struct_vars, json_vars, files_vars, converter_vars>>

\* one more --use argument on the command line
AddUseArg ==
  /\ installer_pc = "argv"
  /\ Len(env_args) + Len(use_args) < MaxArgs
  /\ \E u \in UseArgs : use_args' = Append(use_args, u)
  /\ UNCHANGED <<env_args, caller_arg, installer_pc, next_arg, env, use, caller,
                 mocked, next_step, invoked>>
  /\ UNCHANGED <<device_configs, struct_vars, json_vars, files_vars, converter_vars>>

\* lines 77-79: AndroidInstaller(argv), with or without a --caller
Construct ==
  /\ installer_pc = "argv"
  /\ \E c \in {AllowedCallers[i] : i \in 1..Len(AllowedCallers)} \cup {NoCaller} :
       caller_arg' = c
  /\ installer_pc' = "env"
  /\ UNCHANGED <<env_args, use_args, next_arg, env, use, caller, mocked, next_step,
                 invoked>>
  /\ UNCHANGED <<device_configs, struct_vars, json_vars, files_vars, converter_vars>>

\* lines 81-93: one round of the loop over args.env
ParseEnv ==
  /\ installer_pc = "env"
  /\ next_arg <= Len(env_args)
  /\ LET e == env_args[next_arg]
         kv == Split1(e, 61)
     IN  IF Len(kv) < 2 \/ kv[1] = <<>>
         THEN /\ installer_pc' = "ValueError"
              /\ UNCHANGED <<env, next_arg>>
         ELSE /\ env' = Store(env, kv[1], kv[2])
              /\ next_arg' = next_arg + 1
              /\ UNCHANGED installer_pc
  /\ UNCHANGED <<env_args, use_args, caller_arg, use, caller, mocked, next_step, invoked>>
  /\ UNCHANGED <<device_configs, struct_vars, json_vars, files_vars, converter_vars>>

\* lines 95-96: the loop over args.env is through (or there is no --env)
BeginUse ==
  /\ installer_pc = "env"
  /\ next_arg > Len(env_args)
  /\ installer_pc' = "use"
  /\ next_arg' = 1
  /\ UNCHANGED <<env_args, use_args, caller_arg, env, use, caller, mocked, next_step,
                 invoked>>
  /\ UNCHANGED <<device_configs, struct_vars, json_vars, files_vars, converter_vars>>

\* lines 97-108: one round of the loop over args.use; u[0] of the empty
\* string raises IndexError
ParseUse ==
  /\ installer_pc = "use"
  /\ next_arg <= Len(use_args)
  /\ LET u == use_args[next_arg]
         key == SubSeq(u, 2, Len(u))
     IN  IF u = <<>>
         THEN /\ installer_pc' = "IndexError"
              /\ UNCHANGED <<use, next_arg>>
         ELSE IF u[1] = 43 \/ u[1] = 45
         THEN /\ use' = Store(use, key, u[1] = 43)
              /\ next_arg' = next_arg + 1
              /\ UNCHANGED installer_pc
         ELSE /\ installer_pc' = "ValueError"
              /\ UNCHANGED <<use, next_arg>>
  /\ UNCHANGED <<env_args, use_args, caller_arg, env, caller, mocked, next_step, invoked>>
  /\ UNCHANGED <<device_configs, struct_vars, json_vars, files_vars, converter_vars>>

\* lines 110-112: the loop over args.use is through (or there is no --use)
SetCaller ==
  /\ installer_pc = "use"
  /\ next_arg > Len(use_args)
  /\ IF caller_arg = NoCaller
     THEN /\ installer_pc' = "ValueError"
          /\ UNCHANGED caller
     ELSE /\ caller' = FromStr(caller_arg)
          /\ installer_pc' = "constructed"
  /\ UNCHANGED <<env_args, use_args, caller_arg, next_arg, env, use, mocked, next_step,
                 invoked>>
  /\ UNCHANGED <<device_configs, struct_vars, json_vars, files_vars, converter_vars>>

\* test_main: a Mock of AndroidInstaller with its caller set; its step
\* methods return when called
MockInstaller ==
  /\ installer_pc = "argv"
  /\ env_args = <<>>
  /\ use_args = <<>>
  /\ \E i \in 1..Len(AllowedCallers) : caller' = FromStr(AllowedCallers[i])
  /\ mocked' = TRUE
  /\ installer_pc' = "constructed"
  /\ UNCHANGED <<env_args, use_args, caller_arg, next_arg, env, use, next_step, invoked>>
  /\ UNCHANGED <<device_configs, struct_vars, json_vars, files_vars, converter_vars>>

\* the five if statements of main, in their order: the callers each one
\* names and the step method it calls
Steps ==
  <<[callers |-> {PUSH_TO_DEVICE, EBUILD_SRC_COMPILE}, method |-> "ebuild_src_compile"],
    [callers |-> {PUSH_TO_DEVICE, EBUILD_SRC_TEST}, method |-> "ebuild_src_test"],
    [callers |-> {PUSH_TO_DEVICE, EBUILD_SRC_INSTALL}, method |-> "ebuild_src_install"],
    [callers |-> {PUSH_TO_DEVICE, BOARD_SPECIFIC_SETUP}, method |-> "board_specific_setup"],
    [callers |-> {PUSH_TO_DEVICE, BOARD_SPECIFIC_SETUP_TEST},
     method |-> "board_specific_setup_test"]>>

\* line 114: installer.main() is called
Main ==
  /\ installer_pc = "constructed"
  /\ installer_pc' = "main"
  /\ UNCHANGED <<env_args, use_args, caller_arg, next_arg, env, use, caller, mocked,
                 next_step, invoked>>
  /\ UNCHANGED <<device_configs, struct_vars, json_vars, files_vars, converter_vars>>

\* lines 115-129: one if statement of main; lines 131-149: the step method
\* it calls raises NotImplementedError, where the Mock's returns
Dispatch ==
  /\ installer_pc = "main"
  /\ next_step <= Len(Steps)
  /\ IF caller \in Steps[next_step].callers
     THEN /\ invoked' = Append(invoked, Steps[next_step].method)
          /\ IF mocked
             THEN next_step' = next_step + 1 /\ UNCHANGED installer_pc
             ELSE installer_pc' = "NotImplementedError" /\ UNCHANGED next_step
     ELSE /\ next_step' = next_step + 1
          /\ UNCHANGED <<invoked, installer_pc>>
  /\ UNCHANGED <<env_args, use_args, caller_arg, next_arg, env, use, caller, mocked>>
  /\ UNCHANGED <<device_configs, struct_vars, json_vars, files_vars, converter_vars>>

\* line 129: main returns
Return ==
  /\ installer_pc = "main"
  /\ next_step > Len(Steps)
  /\ installer_pc' = "returned"
  /\ UNCHANGED <<env_args, use_args, caller_arg, next_arg, env, use, caller, mocked,
                 next_step, invoked>>
  /\ UNCHANGED <<device_configs, struct_vars, json_vars, files_vars, converter_vars>>

NextInstaller ==
  \/ AddEnvArg \/ AddUseArg \/ Construct \/ ParseEnv \/ BeginUse \/ ParseUse
  \/ SetCaller \/ MockInstaller \/ Main \/ Dispatch \/ Return

SpecInstaller == Init /\ [][NextInstaller]_vars

(***************************************************************************)
(* _BuildAudio(config), cros_config_proto_converter.py lines 156-188.      *)
(***************************************************************************)
\* lines 164-165
alsa_path ==
  <<47, 117, 115, 114, 47, 115, 104, 97, 114, 101, 47, 97, 108, 115, 97, 47, 117, 99, 109>>
cras_path == <<47, 101, 116, 99, 47, 99, 114, 97, 115>>

\* '%s/%s' % (a, b)
Slash(a, b) == a \o <<47>> \o b

\* lines 156-160: _File(source, destination)
File(source, destination) ==
  [k \in {"destination", "source"} |-> IF k = "source" THEN source ELSE destination]

\* lines 171-182: files once the four if statements are through
AudioFiles(audio_config, project_name) ==
  LET card == audio_config.card_name
  IN  (IF audio_config.ucm_file # <<>>
       THEN <<File(audio_config.ucm_file,
                   Slash(Slash(alsa_path, card), <<72, 105, 70, 105, 46, 99, 111, 110, 102>>))>>
       ELSE <<>>)
      \o (IF audio_config.ucm_master_file # <<>>
          THEN <<File(audio_config.ucm_master_file,
                      Slash(Slash(alsa_path, card), card \o <<46, 99, 111, 110, 102>>))>>
          ELSE <<>>)
      \o (IF audio_config.card_config_file # <<>>
          THEN <<File(audio_config.card_config_file,
                      Slash(Slash(cras_path, project_name), card))>>
          ELSE <<>>)
      \o (IF audio_config.dsp_file # <<>>
          THEN <<File(audio_config.ucm_file,
                      Slash(Slash(cras_path, project_name),
                            <<100, 115, 112, 46, 105, 110, 105>>))>>
          ELSE <<>>)

\* lines 163-188
BuildAudioOf(cfg) ==
  LET project_name == LowerStr(cfg.hw_design_name)
  IN  IF ~cfg.audio_config.present THEN EmptyDict
      ELSE [m \in {"main"} |->
              [k \in {"cras-config-dir", "files"} |->
                 IF k = "files" THEN AudioFiles(cfg.audio_config, project_name)
                 ELSE project_name]]

\* the caller's Config
LoadBuildConfig ==
  /\ audio_pc = "input"
  /\ \E name \in DesignNames : \E a \in AudioConfigs :
       build_config' = [hw_design_name |-> name, audio_config |-> a]
  /\ audio_pc' = "loaded"
  /\ UNCHANGED <<device_configs, struct_vars, json_vars, files_vars, installer_vars, audio,
                 transform_vars>>

\* the call _BuildAudio(config)
BuildAudio ==
  /\ audio_pc = "loaded"
  /\ audio' = BuildAudioOf(build_config)
  /\ audio_pc' = "done"
  /\ UNCHANGED <<device_configs, struct_vars, json_vars, files_vars, installer_vars,
                 build_config, transform_vars>>

NextAudio == LoadBuildConfig \/ BuildAudio

SpecAudio == Init /\ [][NextAudio]_vars

(***************************************************************************)
(* _TransformBuildConfigs(config), lines 191-309.                          *)
(***************************************************************************)
\* lines 191-204: _BuildIdentity, of a scan config that has at most its
\* firmware_sku set and an empty brand scan config
BuildIdentity(sw_config) ==
  JObject(IF sw_config.firmware_sku # 0
          THEN <<[k |-> "sku-id", v |-> JNumber(sw_config.firmware_sku)]>>
          ELSE <<>>)

\* lines 280-309: _TransformBuildConfig, the keys in the order in which
\* json.dumps(sort_keys=True) writes them; brand-code is left out when the
\* brand has none (_Set); the sections built from messages the bundles of
\* the model leave empty are left out
TransformBuildConfig(hw_design, device_brand, sw_config) ==
  JObject((IF device_brand.brand_code # <<>>
           THEN <<[k |-> "brand-code", v |-> JString(device_brand.brand_code)]>>
           ELSE <<>>)
          \o <<[k |-> "identity", v |-> BuildIdentity(sw_config)],
               [k |-> "name", v |-> JString(LowerStr(hw_design.name))]>>)

\* lines 207-218: _Lookup(id_value, id_map) raises
LookupFails(id_value, id_map) == id_value # "" /\ id_value \notin id_map

\* variant of SwConfigMatches: the search stops at the first match
SwConfigMatchesFirst(sw_configs, design_id) ==
  LET all == SelectSeq(sw_configs, LAMBDA x : x.design_config_id = design_id)
  IN  IF all = <<>> THEN <<>> ELSE <<Head(all)>>

\* lines 249-250: sw_config_matches
SwConfigMatches(sw_configs, design_id) ==
  SelectSeq(sw_configs, LAMBDA x : x.design_config_id = design_id)

\* lines 235-239: device_brands of a design
DeviceBrandsOf(b, hw_design) ==
  IF b.device_brands # <<>>
  THEN SelectSeq(b.device_brands, LAMBDA x : x.design_id = hw_design.id)
  ELSE <<DefaultDeviceBrand>>

RECURSIVE Chain(_)
\* the passes of nested loops one behind the other
Chain(lists) == IF lists = <<>> THEN <<>> ELSE Head(lists) \o Chain(Tail(lists))

\* lines 234-247: the passes of the innermost loop in their order: the
\* design, the device brand and the design config of each
Visits(b) ==
  Chain([d \in 1..Len(b.designs) |->
    LET hw_design == b.designs[d]
        device_brands == DeviceBrandsOf(b, hw_design)
    IN  Chain([r \in 1..Len(device_brands) |->
          [c \in 1..Len(hw_design.configs) |->
             [hw_design |-> hw_design, device_brand |-> device_brands[r],
              hw_design_config |-> hw_design.configs[c]]]])])

\* one more design in config.designs.value
AddDesign ==
  /\ transform_pc = "input"
  /\ BundleSize(bundle) < MaxBundle
  /\ \E id \in DesignIds : \E program_id \in ProgramIds \cup {""} : \E name \in DesignNames :
       bundle' = [bundle EXCEPT !.designs =
                    Append(@, [id |-> id, name |-> name, program_id |-> program_id,
                               configs |-> <<>>])]
  /\ UNCHANGED <<transform_pc, next_visit, results, raised>>
  /\ UNCHANGED <<device_configs, struct_vars, json_vars, files_vars, installer_vars,
                 audio_vars>>

\* one more design config in the configs of the last design
AddDesignConfig ==
  /\ transform_pc = "input"
  /\ BundleSize(bundle) < MaxBundle
  /\ bundle.designs # <<>>
  /\ \E id \in DesignConfigIds :
       bundle' = [bundle EXCEPT !.designs[Len(bundle.designs)].configs = Append(@, id)]
  /\ UNCHANGED <<transform_pc, next_visit, results, raised>>
  /\ UNCHANGED <<device_configs, struct_vars, json_vars, files_vars, installer_vars,
                 audio_vars>>

\* one more device brand in config.device_brands.value
AddDeviceBrand ==
  /\ transform_pc = "input"
  /\ BundleSize(bundle) < MaxBundle
  /\ \E design_id \in DesignIds :
       bundle' = [bundle EXCEPT !.device_brands =
                    Append(@, [id |-> "b", design_id |-> design_id,
                               brand_code |-> <<90, 90, 67, 82>>])]
  /\ UNCHANGED <<transform_pc, next_visit, results, raised>>
  /\ UNCHANGED <<device_configs, struct_vars, json_vars, files_vars, installer_vars,
                 audio_vars>>

\* one more software config in config.software_configs
AddSoftwareConfig ==
  /\ transform_pc = "input"
  /\ BundleSize(bundle) < MaxBundle
  /\ \E id \in DesignConfigIds : \E sku \in {0, 1} :
       bundle' = [bundle EXCEPT !.software_configs =
                    Append(@, [design_config_id |-> id, firmware_sku |-> sku])]
  /\ UNCHANGED <<transform_pc, next_visit, results, raised>>
  /\ UNCHANGED <<device_configs, struct_vars, json_vars, files_vars, installer_vars,
                 audio_vars>>

\* lines 221-233: the call, on a bundle with some programs and build targets
CallTransform ==
  /\ transform_pc = "input"
  /\ \E n \in 0..2 : \E programs \in SUBSET ProgramIds :
       /\ bundle' = [bundle EXCEPT !.build_targets = n, !.programs = programs]
       /\ IF n # 1
          THEN /\ raised' = [message |-> "Single build_target required for transform",
                             value |-> ""]
               /\ transform_pc' = "Exception"
          ELSE /\ transform_pc' = "loop"
               /\ UNCHANGED raised
  /\ UNCHANGED <<next_visit, results>>
  /\ UNCHANGED <<device_configs, struct_vars, json_vars, files_vars, installer_vars,
                 audio_vars>>

\* lines 247-275: one pass of the innermost loop
VisitDesignConfig ==
  /\ transform_pc = "loop"
  /\ next_visit <= Len(Visits(bundle))
  /\ LET visit == Visits(bundle)[next_visit]
         design_id == visit.hw_design_config
         sw_config_matches == SwConfigMatches(bundle.software_configs, design_id)
     IN  IF Len(sw_config_matches) > 1
         THEN /\ raised' = [message |-> "Multiple software configs found for: %s",
                            value |-> design_id]
              /\ transform_pc' = "Exception"
              /\ UNCHANGED <<next_visit, results>>
         ELSE IF Len(sw_config_matches) # 1
         THEN /\ raised' = [message |-> "Software config is required for: %s",
                            value |-> design_id]
              /\ transform_pc' = "Exception"
              /\ UNCHANGED <<next_visit, results>>
         ELSE IF LookupFails(visit.hw_design.program_id, bundle.programs)
         THEN /\ raised' = [message |-> "Failed to lookup %s with value: %s",
                            value |-> visit.hw_design.program_id]
              /\ transform_pc' = "Exception"
              /\ UNCHANGED <<next_visit, results>>
         ELSE LET transformed_config ==
                    TransformBuildConfig(visit.hw_design, visit.device_brand,
                                         sw_config_matches[1])
                  config_json == JsonDump(transformed_config)
              IN  /\ results' =
                       IF \E i \in 1..Len(results) : results[i].config_json = config_json
                       THEN results
                       ELSE Append(results, [config_json |-> config_json,
                                             transformed_config |-> transformed_config])
                  /\ next_visit' = next_visit + 1
                  /\ UNCHANGED <<transform_pc, raised>>
  /\ UNCHANGED bundle
  /\ UNCHANGED <<device_configs, struct_vars, json_vars, files_vars, installer_vars,
                 audio_vars>>

\* line 277: the loops are through; list(results.values()) is returned
ReturnResults ==
  /\ transform_pc = "loop"
  /\ next_visit > Len(Visits(bundle))
  /\ transform_pc' = "returned"
  /\ UNCHANGED <<bundle, next_visit, results, raised>>
  /\ UNCHANGED <<device_configs, struct_vars, json_vars, files_vars, installer_vars,
                 audio_vars>>

NextTransform ==
  \/ AddDesign \/ AddDesignConfig \/ AddDeviceBrand \/ AddSoftwareConfig
  \/ CallTransform \/ VisitDesignConfig \/ ReturnResults

SpecTransform == Init /\ [][NextTransform]_vars

(***************************************************************************)
(* The entries of a blob as the test reads them (struct.unpack_from with   *)
(* ENTRY_FORMAT at offset HeaderSize + EntrySize * (i - 1), i from 1).     *)
(***************************************************************************)
EntryOffset(i) == HeaderSize + EntrySize * (i - 1)
EntryFlags(blob, i) == Unpack32(blob, EntryOffset(i))
EntryModelOffset(blob, i) == Unpack32(blob, EntryOffset(i) + 4)
EntrySkuId(blob, i) == Unpack32(blob, EntryOffset(i) + 8)
EntryWhitelabelOffset(blob, i) == Unpack32(blob, EntryOffset(i) + 12)

\* the identity type of the header
HeaderIdentityType(blob) == Unpack32(blob, 4)

\* what a reader recovers of entry i: the SKU id, the model-match string and
\* the whitelabel-match string, each None when the flags (or, for the
\* model-match string, the identity type) say there is none
ParsedSkuId(blob, i) ==
  IF HasFlag(EntryFlags(blob, i), HAS_SKU_ID) THEN Boxed(EntrySkuId(blob, i)) ELSE None

ParsedModelMatch(blob, i) ==
  IF HeaderIdentityType(blob) = ARM \/ HasFlag(EntryFlags(blob, i), HAS_SMBIOS_NAME)
  THEN GetString(blob, EntryModelOffset(blob, i)) ELSE None

ParsedWhitelabelMatch(blob, i) ==
  IF \/ HasFlag(EntryFlags(blob, i), HAS_WHITELABEL)
     \/ HasFlag(EntryFlags(blob, i), USES_CUSTOMIZATION_ID)
  THEN GetString(blob, EntryWhitelabelOffset(blob, i)) ELSE None

(***************************************************************************)
(* Vocabulary of the properties.                                           *)
(***************************************************************************)
NumDevices == Len(device_configs)

\* the identity of device i; a device config without 'identity' has no keys
IdentityOfDevice(i) ==
  IF device_configs[i].has_identity THEN device_configs[i].identity ELSE EmptyDict

HasKey(i, key) == key \in DOMAIN IdentityOfDevice(i)

\* some device identity has device-tree-compatible-match or firmware-name
AnyArmKey ==
  \E i \in 1..NumDevices :
    HasKey(i, "device-tree-compatible-match") \/ HasKey(i, "firmware-name")

\* the header is in the output
HeaderWritten == pc \in {"entries", "done", "error"}

\* the devices whose entry is in the output
WrittenDevices == IF HeaderWritten THEN 1..(next_device - 1) ELSE {}

\* the model-match string of device i in the input: smbios-name-match in an
\* x86 configuration, firmware-name or else device-tree-compatible-match in
\* an ARM one; None when the device has none
InputModelMatch(i) ==
  IF ~AnyArmKey
  THEN IF HasKey(i, "smbios-name-match")
       THEN IdentityOfDevice(i)["smbios-name-match"] ELSE None
  ELSE IF HasKey(i, "firmware-name") THEN IdentityOfDevice(i)["firmware-name"]
  ELSE IF HasKey(i, "device-tree-compatible-match")
       THEN IdentityOfDevice(i)["device-tree-compatible-match"] ELSE None

\* the whitelabel-match string of device i in the input: customization-id
\* or else whitelabel-tag; None when the device has neither
InputWhitelabelMatch(i) ==
  IF HasKey(i, "customization-id") THEN IdentityOfDevice(i)["customization-id"]
  ELSE IF HasKey(i, "whitelabel-tag") THEN IdentityOfDevice(i)["whitelabel-tag"]
  ELSE None

InputSkuId(i) == IF HasKey(i, "sku-id") THEN IdentityOfDevice(i)["sku-id"] ELSE None

\* the two string fields of an entry
Fields == {"model", "whitelabel"}

InputMatch(i, field) ==
  IF field = "model" THEN InputModelMatch(i) ELSE InputWhitelabelMatch(i)

WrittenOffset(i, field) ==
  IF field = "model" THEN EntryModelOffset(output, i)
  ELSE EntryWhitelabelOffset(output, i)

\* a string without its letter case
LowerOrNone(s) == IF s = None THEN None ELSE LowerStr(s)

RECURSIVE SumLen(_)
\* the byte length of a list of byte strings
SumLen(table) == IF table = <<>> THEN 0 ELSE Len(Head(table)) + SumLen(Tail(table))

\* the offsets at which a string of the table starts
StringStarts(table) == {SumLen(SubSeq(table, 1, k - 1)) : k \in 1..Len(table)}

\* the bytes of the output from byte offset pos on
OutputFrom(pos) == SubSeq(output, pos + 1, Len(output))

\* the layout of a complete blob
CompleteLayout ==
  /\ Len(output) = 16 + 16 * NumDevices + SumLen(string_table)
  /\ Unpack32(output, 0) = 0
  /\ Unpack32(output, 4) = identity_type
  /\ Unpack32(output, 8) = NumDevices
  /\ SubSeq(output, 13, 16) = <<0, 0, 0, 0>>
  /\ \A i \in 1..NumDevices :
       LET at == 16 + 16 * (i - 1)
       IN  /\ HasFlag(Unpack32(output, at), HAS_SKU_ID) <=> HasKey(i, "sku-id")
           /\ Boxed(Unpack32(output, at + 8))
                = (IF HasKey(i, "sku-id") THEN InputSkuId(i) ELSE Boxed(0))
  /\ OutputFrom(16 + 16 * NumDevices) = Flatten(string_table)

\* the identity type is ARM and some device identity has neither
\* firmware-name nor device-tree-compatible-match
SomeDeviceWithoutArmKey ==
  /\ AnyArmKey
  /\ \E i \in 1..NumDevices :
       ~HasKey(i, "firmware-name") /\ ~HasKey(i, "device-tree-compatible-match")

\* C1 (amended): when WriteIdentityStruct completes on a configuration with
\* N device configs, its output is a 16-byte header (version 0, identity
\* type, entry count N), then N 16-byte entries in the input order of the
\* device configs, then the string table: entry i starts at byte 16 + 16 * i
\* and the string table at byte 16 + 16 * N.  It fails to complete, with
\* KeyError, only when the identity type is ARM and some device identity has
\* neither firmware-name nor device-tree-compatible-match.
C1_LayoutWhenCompleted ==
  /\ pc = "done" => CompleteLayout
  /\ pc = "error" => SomeDeviceWithoutArmKey

\* C1 as stated: the layout holds of the output for every configuration,
\* also of what a call that ends with KeyError has written.
C1_LayoutEveryConfiguration == pc \in {"done", "error"} => CompleteLayout

\* C1: a completed call on two devices, the first with SKU id 258, with a
\* string table
C1_Witness ==
  /\ pc = "done"
  /\ NumDevices = 2
  /\ InputSkuId(1) = Boxed(258)
  /\ InputSkuId(2) = None
  /\ string_table # <<>>

\* a match string of the input as the reader is to recover it
Recovered(s, lowered) == IF s = None THEN None ELSE IF lowered THEN LowerStr(s) ELSE s

\* what a reader recovers of the entry of each device agrees with the input,
\* the strings of the input in lower case (lowered) or as they are
RoundTrip(lowered) ==
  \A i \in 1..NumDevices :
    /\ ParsedSkuId(output, i) = InputSkuId(i)
    /\ ParsedModelMatch(output, i)
         = Recovered(InputModelMatch(i), lowered)
    /\ ParsedWhitelabelMatch(output, i)
         = Recovered(InputWhitelabelMatch(i), lowered)
    /\ HasFlag(EntryFlags(output, i), USES_FIRMWARE_NAME) <=> HasKey(i, "firmware-name")
    /\ HasFlag(EntryFlags(output, i), USES_CUSTOMIZATION_ID)
         <=> HasKey(i, "customization-id")

\* C2 (amended): when WriteIdentityStruct completes, parsing the blob it
\* wrote (header, then one entry per device, reading the string at each
\* offset up to its NUL) recovers for each device, in order, the same SKU
\* id, the flags that tell which match strings are present, and the
\* model-match and whitelabel-match strings of the input identity in lower
\* case.
C2_RoundTripLowerCased == pc = "done" => RoundTrip(TRUE)

\* C2 as stated: the strings recovered are the same as those of the input.
C2_RoundTripSameStrings == pc = "done" => RoundTrip(FALSE)

\* C2: a completed call whose strings "Éb" and "A" are read back as "éb" and
\* "a", and whose SKU id 258 is read back
C2_Witness ==
  /\ pc = "done"
  /\ NumDevices = 2
  /\ InputModelMatch(1) = <<201, 98>>
  /\ InputWhitelabelMatch(1) = <<65>>
  /\ InputSkuId(2) = Boxed(258)
  /\ ParsedModelMatch(output, 1) = <<233, 98>>
  /\ ParsedWhitelabelMatch(output, 1) = <<97>>
  /\ ParsedSkuId(output, 2) = Boxed(258)

\* no two entries of the table are equal
NoDuplicates(table) ==
  \A j, k \in 1..Len(table) : table[j] = table[k] => j = k

\* C3: the string table never holds two equal entries, and any two entry
\* fields (model-match or whitelabel-match, of the same or of different
\* devices) whose match strings are identical are written with the same
\* string-table offset.
C3_StringsDeduplicated ==
  /\ NoDuplicates(string_table)
  /\ \A i, j \in WrittenDevices : \A f, g \in Fields :
       (InputMatch(i, f) # None /\ InputMatch(i, f) = InputMatch(j, g))
         => WrittenOffset(i, f) = WrittenOffset(j, g)

\* C3: two devices with the same whitelabel string, written with the one
\* offset 2 into a table of two entries
C3_Witness ==
  /\ pc = "done"
  /\ NumDevices = 2
  /\ InputModelMatch(1) = <<97>>
  /\ InputWhitelabelMatch(1) = <<201, 98>>
  /\ InputWhitelabelMatch(2) = <<201, 98>>
  /\ Len(string_table) = 2
  /\ WrittenOffset(1, "whitelabel") = 2
  /\ WrittenOffset(2, "whitelabel") = 2

\* C4: the identity type written in the header is ARM if and only if some
\* device config's identity has the key device-tree-compatible-match or the
\* key firmware-name; otherwise it is X86 (also with no device configs, or
\* with no device that has an identity).
C4_IdentityType ==
  HeaderWritten =>
    /\ HeaderIdentityType(output) = ARM <=> AnyArmKey
    /\ HeaderIdentityType(output) = X86 <=> ~AnyArmKey

\* C4: an ARM header owed to firmware-name alone
C4_Witness ==
  /\ pc = "done"
  /\ NumDevices = 2
  /\ HasKey(2, "firmware-name")
  /\ \A i \in 1..NumDevices : ~HasKey(i, "device-tree-compatible-match")
  /\ HeaderIdentityType(output) = ARM

StringStartsAt(table, s, offset) ==
  \E k \in 1..Len(table) :
    /\ table[k] = Encode(LowerStr(s)) \o <<0>>
    /\ offset = SumLen(SubSeq(table, 1, k - 1))

\* the offset of each written field that carries a string is the byte
\* length of the table entries before the string, that of a field without a
\* string is 0
OffsetsAreCumulativeLengths ==
  \A i \in WrittenDevices : \A f \in Fields :
    IF InputMatch(i, f) = None
    THEN WrittenOffset(i, f) = 0
    ELSE StringStartsAt(string_table, InputMatch(i, f), WrittenOffset(i, f))

\* C6 (amended): for every entry field that carries a string (model-match or
\* whitelabel-match), the offset written is the sum of the byte lengths
\* (NUL terminators included) of the string-table entries that precede the
\* string in the table, and 0 when the string is absent; the offset of a
\* field whose string is present is the start of a string inside the table,
\* and so is the 0 of a field whose string is absent unless the table is
\* empty.
C6_OffsetsIntoTable ==
  /\ OffsetsAreCumulativeLengths
  /\ \A i \in WrittenDevices : \A f \in Fields :
       (InputMatch(i, f) # None \/ string_table # <<>>)
         => WrittenOffset(i, f) \in StringStarts(string_table)

\* C6 as stated: every written offset is the start of a string inside the
\* table.
C6_EveryOffsetStartsAString ==
  pc = "done" =>
    /\ OffsetsAreCumulativeLengths
    /\ \A i \in WrittenDevices : \A f \in Fields :
         WrittenOffset(i, f) \in StringStarts(string_table)

\* C6: "éb" (4 bytes with its NUL) at offset 0, "a" at offset 4 in both
\* devices, and 0 for the absent string
C6_Witness ==
  /\ pc = "done"
  /\ NumDevices = 2
  /\ InputModelMatch(1) = <<201, 98>>
  /\ InputWhitelabelMatch(1) = <<65>>
  /\ InputModelMatch(2) = <<97>>
  /\ InputWhitelabelMatch(2) = None
  /\ WrittenOffset(1, "model") = 0
  /\ WrittenOffset(1, "whitelabel") = 4
  /\ WrittenOffset(2, "model") = 4
  /\ WrittenOffset(2, "whitelabel") = 0
  /\ string_table = <<<<195, 169, 98, 0>>, <<97, 0>>>>

\* C7 (amended): the field of an entry whose device has no corresponding
\* match string is 0, so that a field that is not 0 denotes a string that is
\* present.  (The field is 0 also for the string that is first in the
\* table; the flags tell whether the string is present.)
C7_AbsentIsZero ==
  \A i \in WrittenDevices : \A f \in Fields :
    InputMatch(i, f) = None => WrittenOffset(i, f) = 0

\* C7 as stated: the field is 0 if and only if the device has no
\* corresponding match string.
C7_ZeroIffAbsent ==
  pc = "done" =>
    \A i \in WrittenDevices : \A f \in Fields :
      WrittenOffset(i, f) = 0 <=> InputMatch(i, f) = None

\* C7: a device without model-match string, whose field is 0, and with the
\* whitelabel string that is first in the table, whose field is 0 too
C7_Witness ==
  /\ pc = "done"
  /\ NumDevices = 2
  /\ InputModelMatch(1) = <<97>>
  /\ InputModelMatch(2) = None
  /\ InputSkuId(2) = Boxed(258)
  /\ InputWhitelabelMatch(2) = <<65>>
  /\ WrittenOffset(2, "model") = 0
  /\ WrittenOffset(2, "whitelabel") = 0

RECURSIVE MatchStringsOf(_)
\* the match strings of devices 1..n in the order the claim gives: devices
\* in input order, the model-match string of a device before its
\* whitelabel-match string
MatchStringsOf(n) ==
  IF n = 0 THEN <<>>
  ELSE MatchStringsOf(n - 1)
         \o (IF InputModelMatch(n) = None THEN <<>> ELSE <<InputModelMatch(n)>>)
         \o (IF InputWhitelabelMatch(n) = None THEN <<>> ELSE <<InputWhitelabelMatch(n)>>)

RECURSIVE FirstSeen(_)
\* a list without the repetitions of its elements, each kept where it is
\* first
FirstSeen(list) ==
  IF list = <<>> THEN <<>>
  ELSE LET front == FirstSeen(SubSeq(list, 1, Len(list) - 1))
           last == list[Len(list)]
       IN  IF \E k \in 1..Len(front) : front[k] = last THEN front
           ELSE Append(front, last)

\* the strings of a list, each lower-cased, UTF-8 encoded and NUL-terminated
AsTableEntries(list) == [k \in 1..Len(list) |-> Encode(LowerStr(list[k])) \o <<0>>]

\* a capital letter and its lower-case letter
CaseVariants(c, d) ==
  \/ c \in (65..90) \cup (192..214) \cup (216..222) /\ d = c + 32
  \/ d \in (65..90) \cup (192..214) \cup (216..222) /\ c = d + 32

\* two strings that differ at most in letter case
DifferOnlyInCase(s, t) ==
  /\ s # None
  /\ t # None
  /\ Len(s) = Len(t)
  /\ \A k \in 1..Len(s) : s[k] = t[k] \/ CaseVariants(s[k], t[k])

\* C8: the string table written after the entries is the sequence of the
\* distinct lower-cased, NUL-terminated match strings in first-seen order,
\* devices visited in input order and, within a device, the model-match
\* string before the whitelabel-match string; strings that differ only in
\* letter case occupy one slot.
C8_StringTableFirstSeen ==
  /\ string_table = FirstSeen(AsTableEntries(MatchStringsOf(Cardinality(WrittenDevices))))
  /\ pc = "done" =>
       OutputFrom(16 + 16 * NumDevices)
         = Flatten(FirstSeen(AsTableEntries(MatchStringsOf(NumDevices))))
  /\ \A e \in 1..Len(string_table) : \A b \in 1..Len(string_table[e]) :
       string_table[e][b] \notin 65..90
  /\ \A i, j \in WrittenDevices : \A f, g \in Fields :
       DifferOnlyInCase(InputMatch(i, f), InputMatch(j, g))
         => WrittenOffset(i, f) = WrittenOffset(j, g)

\* C8: "Éb", "A" and "a" seen in this order give the table "éb", "a"
C8_Witness ==
  /\ pc = "done"
  /\ NumDevices = 2
  /\ InputModelMatch(1) = <<201, 98>>
  /\ InputWhitelabelMatch(1) = <<65>>
  /\ InputWhitelabelMatch(2) = <<97>>
  /\ OutputFrom(16 + 16 * NumDevices) = <<195, 169, 98, 0, 97, 0>>

\* the model-match string a reader finds at the offset of entry i
ModelStringRead(i) == GetString(output, EntryModelOffset(output, i))

\* C9 (amended): for every device whose identity contains smbios-name-match,
\* in a blob whose identity type is X86 the device's entry has the
\* HAS_SMBIOS_NAME flag set and the string at the entry's model-match offset
\* is the lower-cased smbios-name-match; in a blob whose identity type is
\* ARM (some device identity has device-tree-compatible-match or
\* firmware-name) the entry does not have the flag.
C9_SmbiosNameInX86 ==
  pc = "done" =>
    \A i \in 1..NumDevices :
      HasKey(i, "smbios-name-match") =>
        IF HeaderIdentityType(output) = X86
        THEN /\ HasFlag(EntryFlags(output, i), HAS_SMBIOS_NAME)
             /\ ModelStringRead(i) = LowerStr(IdentityOfDevice(i)["smbios-name-match"])
        ELSE ~HasFlag(EntryFlags(output, i), HAS_SMBIOS_NAME)

\* C9 as stated: the flag is set, the identity type is X86 and the string is
\* the lower-cased smbios-name-match for every device with smbios-name-match.
C9_SmbiosNameAlways ==
  pc = "done" =>
    \A i \in 1..NumDevices :
      HasKey(i, "smbios-name-match") =>
        /\ HasFlag(EntryFlags(output, i), HAS_SMBIOS_NAME)
        /\ HeaderIdentityType(output) = X86
        /\ ModelStringRead(i) = LowerStr(IdentityOfDevice(i)["smbios-name-match"])

\* C9: an X86 blob whose second device has smbios-name-match "A", read back
\* as "a" behind another string
C9_Witness ==
  /\ pc = "done"
  /\ NumDevices = 2
  /\ HasKey(2, "smbios-name-match")
  /\ IdentityOfDevice(2)["smbios-name-match"] = <<65>>
  /\ InputWhitelabelMatch(1) = <<201, 98>>
  /\ HeaderIdentityType(output) = X86
  /\ HasFlag(EntryFlags(output, 2), HAS_SMBIOS_NAME)
  /\ ModelStringRead(2) = <<97>>

\* C10 (amended): for every device whose identity contains
\* device-tree-compatible-match the blob's identity type is ARM, and when
\* WriteIdentityStruct completes the string at the entry's model-match
\* offset is the lower-cased device-tree-compatible-match if the identity
\* has no firmware-name, and the lower-cased firmware-name if it has.
C10_DeviceTreeMatchInArm ==
  \A i \in 1..NumDevices :
    (HeaderWritten /\ HasKey(i, "device-tree-compatible-match")) =>
      /\ HeaderIdentityType(output) = ARM
      /\ pc = "done" =>
           ModelStringRead(i)
             = LowerStr(IF HasKey(i, "firmware-name")
                        THEN IdentityOfDevice(i)["firmware-name"]
                        ELSE IdentityOfDevice(i)["device-tree-compatible-match"])

\* C10 as stated: the string is the lower-cased device-tree-compatible-match
\* for every device with device-tree-compatible-match.
C10_DeviceTreeMatchAlways ==
  pc = "done" =>
    \A i \in 1..NumDevices :
      HasKey(i, "device-tree-compatible-match") =>
        /\ HeaderIdentityType(output) = ARM
        /\ ModelStringRead(i)
             = LowerStr(IdentityOfDevice(i)["device-tree-compatible-match"])

\* C10: an ARM blob whose second device has device-tree-compatible-match "Éb"
\* and no firmware-name, read back as "éb"
C10_Witness ==
  /\ pc = "done"
  /\ NumDevices = 2
  /\ HasKey(1, "firmware-name")
  /\ HasKey(2, "device-tree-compatible-match")
  /\ ~HasKey(2, "firmware-name")
  /\ IdentityOfDevice(2)["device-tree-compatible-match"] = <<201, 98>>
  /\ HeaderIdentityType(output) = ARM
  /\ ModelStringRead(2) = <<233, 98>>

\* the whitelabel-match string a reader finds at the offset of entry i
WhitelabelStringRead(i) == GetString(output, EntryWhitelabelOffset(output, i))

\* C11: the USES_FIRMWARE_NAME flag is set on a device's entry if and only
\* if the device's identity contains firmware-name, and then the model-match
\* string is the lower-cased firmware-name; no entry of an X86 blob has the
\* flag.
C11_UsesFirmwareName ==
  \A i \in WrittenDevices :
    /\ HasFlag(EntryFlags(output, i), USES_FIRMWARE_NAME) <=> HasKey(i, "firmware-name")
    /\ HeaderIdentityType(output) = X86
         => ~HasFlag(EntryFlags(output, i), USES_FIRMWARE_NAME)
    /\ (pc = "done" /\ HasKey(i, "firmware-name"))
         => ModelStringRead(i) = LowerStr(IdentityOfDevice(i)["firmware-name"])

\* C11: a completed ARM blob whose second device has firmware-name "A" and
\* device-tree-compatible-match "Éb", read back as "a" behind "éb"
C11_Witness ==
  /\ pc = "done"
  /\ NumDevices = 2
  /\ HasKey(1, "device-tree-compatible-match")
  /\ ~HasKey(1, "firmware-name")
  /\ IdentityOfDevice(1)["device-tree-compatible-match"] = <<201, 98>>
  /\ HasKey(2, "firmware-name")
  /\ HasKey(2, "device-tree-compatible-match")
  /\ IdentityOfDevice(2)["firmware-name"] = <<65>>
  /\ IdentityOfDevice(2)["device-tree-compatible-match"] = <<201, 98>>
  /\ ~HasFlag(EntryFlags(output, 1), USES_FIRMWARE_NAME)
  /\ HasFlag(EntryFlags(output, 2), USES_FIRMWARE_NAME)
  /\ ModelStringRead(2) = <<97>>

\* C12: the HAS_SKU_ID flag is set on a device's entry if and only if the
\* device's identity has the key sku-id (also when its value is 0); the
\* entry's SKU field is that sku-id when the flag is set and 0 when not.
C12_HasSkuId ==
  \A i \in WrittenDevices :
    /\ HasFlag(EntryFlags(output, i), HAS_SKU_ID) <=> HasKey(i, "sku-id")
    /\ HasFlag(EntryFlags(output, i), HAS_SKU_ID)
         => Boxed(EntrySkuId(output, i)) = IdentityOfDevice(i)["sku-id"]
    /\ ~HasFlag(EntryFlags(output, i), HAS_SKU_ID) => EntrySkuId(output, i) = 0

\* C12: entries written for sku-id 0, sku-id 258 and no sku-id
C12_Witness ==
  /\ pc = "done"
  /\ NumDevices = 3
  /\ InputSkuId(1) = Boxed(0)
  /\ InputSkuId(2) = Boxed(258)
  /\ InputSkuId(3) = None
  /\ HasFlag(EntryFlags(output, 1), HAS_SKU_ID)
  /\ EntrySkuId(output, 1) = 0
  /\ EntrySkuId(output, 2) = 258
  /\ ~HasFlag(EntryFlags(output, 3), HAS_SKU_ID)

\* C13 (amended): the HAS_WHITELABEL flag is set on a device's entry if and
\* only if the device's identity contains whitelabel-tag and does not
\* contain customization-id, and then the string at the entry's
\* whitelabel-match offset is the lower-cased whitelabel-tag.
C13_HasWhitelabel ==
  \A i \in WrittenDevices :
    /\ HasFlag(EntryFlags(output, i), HAS_WHITELABEL)
         <=> (HasKey(i, "whitelabel-tag") /\ ~HasKey(i, "customization-id"))
    /\ (pc = "done" /\ HasKey(i, "whitelabel-tag") /\ ~HasKey(i, "customization-id"))
         => WhitelabelStringRead(i) = LowerStr(IdentityOfDevice(i)["whitelabel-tag"])

\* C13 as stated: the flag is set if and only if the identity contains
\* whitelabel-tag, and the string is the lower-cased whitelabel-tag whenever
\* the identity contains it.
C13_HasWhitelabelAlways ==
  pc = "done" =>
    \A i \in WrittenDevices :
      /\ HasFlag(EntryFlags(output, i), HAS_WHITELABEL) <=> HasKey(i, "whitelabel-tag")
      /\ HasKey(i, "whitelabel-tag")
           => WhitelabelStringRead(i) = LowerStr(IdentityOfDevice(i)["whitelabel-tag"])

\* C13: a completed blob whose second device has whitelabel-tag "A" alone,
\* read back as "a" behind "éb"
C13_Witness ==
  /\ pc = "done"
  /\ NumDevices = 2
  /\ InputModelMatch(1) = <<201, 98>>
  /\ HasKey(2, "whitelabel-tag")
  /\ ~HasKey(2, "customization-id")
  /\ IdentityOfDevice(2)["whitelabel-tag"] = <<65>>
  /\ HasFlag(EntryFlags(output, 2), HAS_WHITELABEL)
  /\ EntryWhitelabelOffset(output, 2) = 4
  /\ WhitelabelStringRead(2) = <<97>>

\* C14: the USES_CUSTOMIZATION_ID flag is set on a device's entry if and
\* only if the device's identity contains customization-id, and then the
\* string at the entry's whitelabel-match offset is the lower-cased
\* customization-id.
C14_UsesCustomizationId ==
  \A i \in WrittenDevices :
    /\ HasFlag(EntryFlags(output, i), USES_CUSTOMIZATION_ID)
         <=> HasKey(i, "customization-id")
    /\ (pc = "done" /\ HasKey(i, "customization-id"))
         => WhitelabelStringRead(i) = LowerStr(IdentityOfDevice(i)["customization-id"])

\* C14: a completed blob whose device has customization-id "A" and
\* whitelabel-tag "Éb"; the flag is set and "a" is read back
C14_Witness ==
  /\ pc = "done"
  /\ NumDevices = 1
  /\ HasKey(1, "customization-id")
  /\ HasKey(1, "whitelabel-tag")
  /\ IdentityOfDevice(1)["customization-id"] = <<65>>
  /\ IdentityOfDevice(1)["whitelabel-tag"] = <<201, 98>>
  /\ HasFlag(EntryFlags(output, 1), USES_CUSTOMIZATION_ID)
  /\ ~HasFlag(EntryFlags(output, 1), HAS_WHITELABEL)
  /\ WhitelabelStringRead(1) = <<97>>

\* identity_data of the test: the document read back
IdentityData == JsonLoad(json_output)

\* the output is one config object per device config, in the input order,
\* each with the one key identity and the identity of its device
IdentityJsonMatchesInput ==
  /\ DOMAIN IdentityData = {"chromeos"}
  /\ DOMAIN IdentityData["chromeos"] = {"configs"}
  /\ LET identity_configs == IdentityData["chromeos"]["configs"]
     IN  /\ Len(identity_configs) = Len(device_configs)
         /\ \A i \in 1..Len(device_configs) :
              /\ DOMAIN identity_configs[i] = {"identity"}
              /\ device_configs[i].has_identity
              /\ identity_configs[i]["identity"] = device_configs[i].identity

\* C15 (amended): when every device config of the input has an identity,
\* WriteIdentityJson emits for the i-th device config an i-th config object
\* whose only key is identity and whose value is the device's identity: as
\* many configs as the input, in the same order, every other field left
\* out.  When some device config has no identity it raises KeyError and
\* emits nothing.
C15_IdentityJson ==
  /\ json_pc = "done" => IdentityJsonMatchesInput
  /\ json_pc = "error" =>
       /\ json_output = <<>>
       /\ \E i \in 1..Len(device_configs) : ~device_configs[i].has_identity
  /\ (\A i \in 1..Len(device_configs) : device_configs[i].has_identity)
       => json_pc # "error"

\* C15 as stated: every call of WriteIdentityJson emits the config objects
\* of all the device configs of its input.
C15_IdentityJsonEveryConfiguration ==
  json_pc # "start" => (json_pc = "done" /\ IdentityJsonMatchesInput)

\* C15: two device configs written and read back, the second with sku-id 258
\* and smbios-name-match "Éb", the first with an empty identity
C15_Witness ==
  /\ json_pc = "done"
  /\ Len(device_configs) = 2
  /\ device_configs[1].identity = EmptyDict
  /\ DOMAIN device_configs[2].identity = {"sku-id", "smbios-name-match"}
  /\ device_configs[2].name = DeviceName
  /\ IdentityData["chromeos"]["configs"][2]["identity"]["sku-id"] = Boxed(258)
  /\ IdentityData["chromeos"]["configs"][2]["identity"]["smbios-name-match"] = <<201, 98>>
  /\ DOMAIN IdentityData["chromeos"]["configs"][1] = {"identity"}

\* no node: what a path that leads nowhere in the configuration finds
NoNode == [t |-> "none"]

\* the names of the children of a dict or list node, in their order
ChildNames(node) ==
  IF node.t = "dict" THEN [i \in 1..Len(node.members) |-> node.members[i].name]
  ELSE IF node.t = "list" THEN [i \in 1..Len(node.items) |-> Decimal(i - 1)]
  ELSE <<>>

\* the i-th child of a dict or list node
Child(node, i) == IF node.t = "dict" THEN node.members[i].entry ELSE node.items[i]

RECURSIVE NodeAt(_, _)
\* the node of the configuration tree a path of names leads to
NodeAt(node, path) ==
  IF path = <<>> THEN node
  ELSE LET names == ChildNames(node)
           found == {i \in 1..Len(names) : names[i] = Head(path)}
       IN  IF found = {} THEN NoNode
           ELSE NodeAt(Child(node, CHOOSE i \in found : TRUE), Tail(path))

\* the names a child can have in the model, and the paths made of them
ChildNamesOfModel == DictKeys \cup {Decimal(i) : i \in 0..(MaxNodes - 2)}
PathsOfModel == UNION {[1..n -> ChildNamesOfModel] : n \in 0..(MaxNodes - 1)}

\* the content the claim gives the file of a leaf
LeafContent(leaf) ==
  CASE leaf.t = "bool" -> IF leaf.b THEN <<116, 114, 117, 101>> ELSE <<102, 97, 108, 115, 101>>
    [] leaf.t = "bytes" -> leaf.bytes
    [] leaf.t = "int" -> Encode(Decimal(leaf.n))
    [] leaf.t = "str" -> Encode(leaf.s)

\* C16: WriteConfigFSFiles maps the configuration tree onto the file tree
\* one-to-one: there is exactly one directory or file for each node and none
\* besides; a dict or list node is a directory, its children named by the
\* dict key or the list index; a leaf is a regular file whose content is
\* true or false for a bool, the bytes themselves for bytes, and the UTF-8
\* encoding of the decimal or string form otherwise.
C16_FileTree ==
  files_pc = "done" =>
    /\ \A f \in files : f.path \in PathsOfModel
    /\ \A path \in PathsOfModel :
         LET node == NodeAt(config, path)
             at == {f \in files : f.path = path}
         IN  IF node.t = "none" THEN at = {}
             ELSE IF node.t \in {"dict", "list"} THEN at = {Directory(path)}
             ELSE at = {RegularFile(path, LeafContent(node))}

\* C16: the files written for {'a': [True], '0': 'Éb'}: the directories
\* <base> and a, the file a/0 holding "true" and the file 0 holding the two
\* bytes of É and "b"
C16_Witness ==
  /\ files_pc = "done"
  /\ config = PyDict(<<[name |-> <<97>>, entry |-> PyList(<<PyBool(TRUE)>>)],
                       [name |-> <<48>>, entry |-> PyStr(<<201, 98>>)]>>)
  /\ files = {Directory(<<>>), Directory(<<<<97>>>>),
              RegularFile(<<<<97>>, <<48>>>>, <<116, 114, 117, 101>>),
              RegularFile(<<<<48>>>>, <<195, 137, 98>>)}

\* the construction of the installer has ended, with an object or an error
ConstructionEnded == installer_pc \in {"constructed", "ValueError", "IndexError"} /\ ~mocked

\* an --env argument has a '='; its key is empty
HasEquals(e) == \E p \in 1..Len(e) : e[p] = 61
EmptyKey(e) == e # <<>> /\ e[1] = 61

\* key and value are the two sides of the first '=' of e
SplitsAtFirstEquals(e, key, value) ==
  \E p \in 1..Len(e) :
    /\ e[p] = 61
    /\ \A q \in 1..(p - 1) : e[q] # 61
    /\ key = SubSeq(e, 1, p - 1)
    /\ value = SubSeq(e, p + 1, Len(e))

\* C17: each --env argument is split at its first '=' only, so the value
\* may contain '=' and may be empty; an --env argument with no '=' or with
\* an empty key makes the construction fail with ValueError; with no --env
\* arguments env is the empty map.
C17_EnvParsing ==
  /\ (installer_pc = "env" /\ next_arg > 1) =>
       \E key \in DOMAIN env :
         SplitsAtFirstEquals(env_args[next_arg - 1], key, env[key])
  /\ (ConstructionEnded /\ \E i \in 1..Len(env_args) :
                             ~HasEquals(env_args[i]) \/ EmptyKey(env_args[i]))
       => installer_pc = "ValueError"
  /\ (installer_pc = "constructed" /\ ~mocked) =>
       \A i \in 1..Len(env_args) : HasEquals(env_args[i]) /\ ~EmptyKey(env_args[i])
  /\ (installer_pc = "constructed" /\ ~mocked /\ env_args = <<>>) => env = EmptyDict

\* C17: 'a=b=c' and 'c=' give {'a': 'b=c', 'c': ''}
C17_Witness ==
  /\ installer_pc = "constructed"
  /\ ~mocked
  /\ env_args = <<<<97, 61, 98, 61, 99>>, <<99, 61>>>>
  /\ DOMAIN env = {<<97>>, <<99>>}
  /\ env[<<97>>] = <<98, 61, 99>>
  /\ env[<<99>>] = <<>>

\* the key and the value the claims read off a well-formed --env argument
EnvKey(e) == SubSeq(e, 1, (CHOOSE p \in 1..Len(e) : e[p] = 61 /\ \A q \in 1..(p - 1) : e[q] # 61) - 1)
EnvValue(e) == SubSeq(e, (CHOOSE p \in 1..Len(e) : e[p] = 61 /\ \A q \in 1..(p - 1) : e[q] # 61) + 1, Len(e))

\* the key and the value the claims read off a well-formed --use argument
UseKey(u) == Tail(u)
UseValue(u) == u[1] = 43

\* env holds, for the first n --env arguments, exactly their keys, each with
\* the value of the last of them that has the key
EnvLastWins(n) ==
  /\ DOMAIN env = {EnvKey(env_args[i]) : i \in 1..n}
  /\ \A i \in 1..n :
       (\A j \in (i + 1)..n : EnvKey(env_args[j]) # EnvKey(env_args[i]))
         => env[EnvKey(env_args[i])] = EnvValue(env_args[i])

\* use holds, for the first n --use arguments, exactly their keys, each with
\* the value of the last of them that has the key
UseLastWins(n) ==
  /\ DOMAIN use = {UseKey(use_args[i]) : i \in 1..n}
  /\ \A i \in 1..n :
       (\A j \in (i + 1)..n : UseKey(use_args[j]) # UseKey(use_args[i]))
         => use[UseKey(use_args[i])] = UseValue(use_args[i])

\* C18: last occurrence wins: the env and use maps of the constructed
\* installer hold, for each key, the value given by the last argument with
\* that key, and exactly the keys that occur in the arguments; the same
\* holds of the arguments gone through at each round of the two loops.
C18_LastWins ==
  /\ installer_pc = "env" => EnvLastWins(next_arg - 1)
  /\ installer_pc = "use" => (EnvLastWins(Len(env_args)) /\ UseLastWins(next_arg - 1))
  /\ (installer_pc = "constructed" /\ ~mocked)
       => (EnvLastWins(Len(env_args)) /\ UseLastWins(Len(use_args)))

\* C18: 'a=1' before 'a=2' gives {'a': '2'}
C18_Witness ==
  /\ installer_pc = "constructed"
  /\ env_args = <<<<97, 61, 49>>, <<97, 61, 50>>>>
  /\ env = [k \in {<<97>>} |-> <<50>>]

\* a --use argument begins with '+' or '-'
BeginsWithSign(u) == u # <<>> /\ (u[1] = 43 \/ u[1] = 45)

\* every --env argument is well formed
EnvArgsValid == \A i \in 1..Len(env_args) : HasEquals(env_args[i]) /\ ~EmptyKey(env_args[i])

\* C19: +flag gives flag=True and -flag gives flag=False; a --use argument
\* that begins with neither '+' nor '-' makes the construction fail with
\* ValueError, also behind valid --use arguments.
C19_UseParsing ==
  /\ (installer_pc = "use" /\ next_arg > 1) =>
       LET u == use_args[next_arg - 1]
       IN  /\ BeginsWithSign(u)
           /\ Tail(u) \in DOMAIN use
           /\ use[Tail(u)] = (u[1] = 43)
  /\ (ConstructionEnded /\ \E i \in 1..Len(use_args) : ~BeginsWithSign(use_args[i]))
       => installer_pc = "ValueError"

\* main has ended, by returning or by an exception
MainEnded == installer_pc \in {"returned", "NotImplementedError"}

\* how many times main has called a step method
TimesInvoked(method) == Cardinality({i \in 1..Len(invoked) : invoked[i] = method})

\* C20: once main has ended: for a caller other than push_to_device the step
\* of the caller's own name has been invoked once and no other step; for
\* push_to_device each of the five steps has been invoked exactly once.
C20_MainDispatch ==
  MainEnded =>
    IF caller = PUSH_TO_DEVICE
    THEN \A i \in 1..Len(Steps) : TimesInvoked(Steps[i].method) = 1
    ELSE invoked = <<AllowedCallers[caller + 1]>>

\* the devices whose identity has neither firmware-name nor
\* device-tree-compatible-match
DevicesWithoutArmKey ==
  {i \in 1..NumDevices :
     ~HasKey(i, "firmware-name") /\ ~HasKey(i, "device-tree-compatible-match")}

\* the first of them
FirstWithoutArmKey == CHOOSE i \in DevicesWithoutArmKey : \A j \in DevicesWithoutArmKey : i <= j

\* C23: if the identity type is ARM and some device's identity has neither
\* firmware-name nor device-tree-compatible-match, WriteIdentityStruct
\* fails at the first such device and never completes; when it fails the
\* output is the header, announcing the full entry count, and the entries of
\* all earlier devices, and no string table.
C23_KeyErrorPartialOutput ==
  /\ pc = "error" =>
       /\ SomeDeviceWithoutArmKey
       /\ next_device = FirstWithoutArmKey
       /\ Len(output) = 16 + 16 * (next_device - 1)
       /\ Unpack32(output, 0) = 0
       /\ Unpack32(output, 4) = ARM
       /\ Unpack32(output, 8) = NumDevices
       /\ \A i \in 1..(next_device - 1) :
            LET at == 16 + 16 * (i - 1)
            IN  /\ HasFlag(Unpack32(output, at), HAS_SKU_ID) <=> HasKey(i, "sku-id")
                /\ HasFlag(Unpack32(output, at), USES_FIRMWARE_NAME)
                     <=> HasKey(i, "firmware-name")
                /\ Boxed(Unpack32(output, at + 8))
                     = (IF HasKey(i, "sku-id") THEN InputSkuId(i) ELSE Boxed(0))
  /\ (HeaderWritten /\ SomeDeviceWithoutArmKey) =>
       /\ pc # "done"
       /\ next_device <= FirstWithoutArmKey

\* C23: a call on three devices fails at the second, an x86-style device
\* with smbios-name-match only: the header announcing 3 entries and the
\* entry of the first device are written, 32 bytes in all
C23_Witness ==
  /\ pc = "error"
  /\ NumDevices = 3
  /\ HasKey(1, "device-tree-compatible-match")
  /\ DOMAIN IdentityOfDevice(2) = {"smbios-name-match"}
  /\ next_device = 2
  /\ Len(output) = 32
  /\ Unpack32(output, 8) = 3
  /\ string_table # <<>>

\* the four file fields of audio_config: the value of the field and the
\* destination the claim gives its file entry
AudioFields == {"ucm_file", "ucm_master_file", "card_config_file", "dsp_file"}

FieldValue(field) ==
  CASE field = "ucm_file" -> build_config.audio_config.ucm_file
    [] field = "ucm_master_file" -> build_config.audio_config.ucm_master_file
    [] field = "card_config_file" -> build_config.audio_config.card_config_file
    [] field = "dsp_file" -> build_config.audio_config.dsp_file

FieldDestination(field) ==
  LET card == build_config.audio_config.card_name
      project == LowerStr(build_config.hw_design_name)
  IN  CASE field = "ucm_file" ->
             alsa_path \o <<47>> \o card \o <<47, 72, 105, 70, 105, 46, 99, 111, 110, 102>>
        [] field = "ucm_master_file" ->
             alsa_path \o <<47>> \o card \o <<47>> \o card \o <<46, 99, 111, 110, 102>>
        [] field = "card_config_file" -> cras_path \o <<47>> \o project \o <<47>> \o card
        [] field = "dsp_file" ->
             cras_path \o <<47>> \o project \o <<47, 100, 115, 112, 46, 105, 110, 105>>

\* C21: the audio section matches the input field for field: there is a
\* file entry for each of ucm_file, ucm_master_file, card_config_file and
\* dsp_file exactly when the field is set, no other entry, and the source of
\* each entry is the value of that same field.
C21_AudioFieldForField ==
  (audio_pc = "done" /\ build_config.audio_config.present) =>
    LET made == audio["main"]["files"]
    IN  /\ Len(made) = Cardinality({f \in AudioFields : FieldValue(f) # <<>>})
        /\ \A f \in AudioFields :
             /\ FieldValue(f) # <<>>
                  <=> \E i \in 1..Len(made) : made[i]["destination"] = FieldDestination(f)
             /\ \A i \in 1..Len(made) :
                  made[i]["destination"] = FieldDestination(f)
                    => made[i]["source"] = FieldValue(f)


\* the number of software configs whose design_config_id is the given id
SoftwareConfigsFor(id) ==
  Cardinality({i \in 1..Len(bundle.software_configs) :
                 bundle.software_configs[i].design_config_id = id})

\* the id of the design config of the k-th pass of the innermost loop
VisitedId(k) == Visits(bundle)[k].hw_design_config

RequiredMessage == "Software config is required for: %s"
MultipleMessage == "Multiple software configs found for: %s"

=============================================================================
